---- MODULE Spec2Model ----
(***************************************************************************)
(* The Power BI query-answering engine of app/services/powerbi_chat.py:    *)
(* the process-wide schema cache, and answer cycles (chat_with_powerbi)    *)
(* run by the worker threads that serve the synchronous chat routes.       *)
(*                                                                         *)
(* Texts are sequences of atoms (lexical units: a word, a code fence, a    *)
(* whitespace run).  The regular expressions and string methods of the     *)
(* source are computed on these sequences.                                 *)
(***************************************************************************)
EXTENDS Naturals, Sequences, FiniteSets, TLC

(***************************************************************************)
(* Python strings                                                          *)
(***************************************************************************)
\* the atoms str.strip() and the regex class \s remove
WS == {" ", "\n"}

RECURSIVE LStrip(_)
LStrip(s) == IF s # <<>> /\ Head(s) \in WS THEN LStrip(Tail(s)) ELSE s

RECURSIVE RStrip(_)
RStrip(s) ==
    IF s # <<>> /\ s[Len(s)] \in WS THEN RStrip(SubSeq(s, 1, Len(s) - 1)) ELSE s

\* str.strip()
Strip(s) == RStrip(LStrip(s))

\* str.upper() on one atom
UpperAtom(a) ==
    CASE a \in {"query", "Query"} -> "QUERY"
      [] a \in {"describe", "Describe"} -> "DESCRIBE"
      [] a \in {"evaluate", "Evaluate"} -> "EVALUATE"
      [] a = "reevaluated" -> "REEVALUATED"
      [] a = "dax" -> "DAX"
      [] a = "fetch" -> "FETCH"
      [] OTHER -> a

\* str.upper()
Upper(s) == [i \in 1..Len(s) |-> UpperAtom(s[i])]

\* str.lower() on one atom
LowerAtom(a) ==
    CASE a \in {"Text", "TEXT"} -> "text"
      [] a \in {"Jo", "JO"} -> "jo"
      [] a \in {"Janx", "JANX"} -> "janx"
      [] a = "JO-JanX" -> "jo-janx"
      [] a = "Orders" -> "orders"
      [] OTHER -> a

\* str.lower()
Lower(s) == [i \in 1..Len(s) |-> LowerAtom(s[i])]

\* "EVALUATE" in s, for an upper-cased s: the keyword itself, or a longer word
\* that contains it
ContainsEvaluate(s) == \E i \in 1..Len(s) : s[i] \in {"EVALUATE", "REEVALUATED"}

(***************************************************************************)
(* JSON values as json.loads returns them                                  *)
(***************************************************************************)
JNull == [t |-> "null"]
JStr(s) == [t |-> "str", v |-> s]
JNum(n) == [t |-> "num", v |-> n]
JBool(b) == [t |-> "bool", v |-> b]
JList(xs) == [t |-> "list", v |-> xs]
JObj(f) == [t |-> "obj", v |-> f]
EmptyObj == JObj(<<>>)

\* bool(x)
Truthy(x) ==
    CASE x.t = "null" -> FALSE
      [] x.t = "str" -> x.v # <<>>
      [] x.t = "num" -> x.v # 0
      [] x.t = "bool" -> x.v
      [] x.t = "list" -> x.v # <<>>
      [] x.t = "obj" -> DOMAIN x.v # {}

\* dict.get(k) on a value known to be a dict
Get(o, k) == IF k \in DOMAIN o.v THEN o.v[k] ELSE JNull

\* (x or "").strip(): AttributeError when x is truthy and not a str
OrEmptyStrip(x) ==
    IF ~Truthy(x) THEN [raised |-> FALSE, s |-> <<>>]
    ELSE IF x.t = "str" THEN [raised |-> FALSE, s |-> Strip(x.v)]
    ELSE [raised |-> TRUE, s |-> <<>>]

(***************************************************************************)
(* The text a JSON-returning prompt gets back.  form says how the text     *)
(* relates to JSON, body is the value json.loads yields where it succeeds: *)
(*   "json"     the whole text is a JSON document                          *)
(*   "wrapped"  prose around one {...} span that is a JSON object          *)
(*   "braces"   a {...} span that is not valid JSON                        *)
(*   "plain"    no {...} span and not JSON;  "empty"  the empty text       *)
(***************************************************************************)
RawText(form, body) == [form |-> form, body |-> body]

\* a parser that gives None, not {}, when nothing parses
parse_json_maybe_none(text) ==
    CASE text.form = "json" -> text.body
      [] text.form = "wrapped" -> text.body
      [] OTHER -> JNull

parse_json_maybe(text) ==
    CASE text.form = "json" -> text.body
      [] text.form = "wrapped" -> text.body
      [] OTHER -> EmptyObj

\* neither json.loads(text) nor the {...} fallback yields a value
Unparseable(text) == text.form \in {"braces", "plain", "empty"}

(***************************************************************************)
(* _extract_dax                                                            *)
(***************************************************************************)
\* the code fence (three backquotes)
Fence == "[fence]"

\* positions of code fences
FencePos(text) == {i \in 1..Len(text) : text[i] = Fence}

Min(S) == CHOOSE x \in S : \A y \in S : x <= y

\* re.search(r"[fence](?:dax)?\s*(.*?)\s*[fence]", text, re.S | re.I): the leftmost
\* fence that has a later fence, the optional tag, and the text up to the next
\* fence without the whitespace around it
FencedBody(text) ==
    LET open == Min({i \in FencePos(text) : \E j \in FencePos(text) : j > i})
        close == Min({j \in FencePos(text) : j > open})
        from == IF open + 1 < close /\ UpperAtom(text[open + 1]) = "DAX"
                THEN open + 2 ELSE open + 1
    IN  Strip(SubSeq(text, from, close - 1))

\* re.search(r"(?i)\bEVALUATE\b.*", text, re.S)
EvaluatePos(text) == {i \in 1..Len(text) : UpperAtom(text[i]) = "EVALUATE"}

\* found = FALSE is Python's None
_extract_dax(text) ==
    IF Cardinality(FencePos(text)) >= 2
    THEN [found |-> TRUE, s |-> Strip(FencedBody(text))]
    ELSE IF EvaluatePos(text) # {}
    THEN [found |-> TRUE,
          s |-> Strip(SubSeq(text, Min(EvaluatePos(text)), Len(text)))]
    ELSE [found |-> FALSE, s |-> <<>>]

\* dax = _extract_dax(dax_text) or dax_text.strip()
ExtractedOrStripped(dax_text) ==
    LET m == _extract_dax(dax_text)
    IN  IF m.found /\ m.s # <<>> THEN m.s ELSE Strip(dax_text)

\* not (not dax or "EVALUATE" not in dax.upper())
ExecutableNonEmpty(dax) == dax # <<>>

Executable(dax) == dax # <<>> /\ ContainsEvaluate(Upper(dax))

(***************************************************************************)
(* The live source.  A source identity is (workspace_id, dataset_id); the   *)
(* rows below are what the four INFO.VIEW queries return for each dataset. *)
(* A row is a dict: a function from keys to JSON values.                   *)
(***************************************************************************)
Workspaces == {<<"w1">>}
Datasets == {<<"sales">>, <<"odd">>, <<"facts">>}
\* the datasets the two-thread scenario asks about
LeanDatasets == {<<"sales">>, <<"odd">>}
\* a dataset whose text columns hold more values than one sampling query asks for
PoolDatasets == {<<"big">>}

\* a column of the values from, from + 1, ..., to
Codes(from, to) == [i \in 1..(to - from + 1) |-> [value |-> JStr(<<ToString(from + i - 1)>>)]]

S(a) == JStr(<<a>>)

\* "sales": a model with a text column; keys come bracketed or bare.
\* "odd": INFO.VIEW answers, but under keys the extraction does not know.
\* "facts": a model without text columns.
InfoViewRows(dataset_id, view) ==
    CASE dataset_id = <<"sales">> /\ view = "TABLES" ->
            << [Name |-> S("Orders")], [Name |-> S("Customer")],
               [Name |-> S("Orders")] >>
      [] dataset_id = <<"sales">> /\ view = "COLUMNS" ->
            << [Table |-> S("Customer"), Name |-> S("Name"), DataType |-> S("Text")],
               ("[Table]" :> S("Orders")) @@ ("[Name]" :> S("Amount"))
                    @@ ("[DataType]" :> S("Int64")),
               [Table |-> S("Orders"), Name |-> JStr(<<" ">>), DataType |-> S("Text")],
               [Table |-> S("Orders"), Name |-> S("Note"), DataType |-> JNull] >>
      [] dataset_id = <<"sales">> /\ view = "RELATIONSHIPS" ->
            << [FromTable |-> S("Orders"), FromColumn |-> S("CustomerId"),
                ToTable |-> S("Customer"), ToColumn |-> S("Id")] >>
      [] dataset_id = <<"sales">> /\ view = "MEASURES" ->
            << [Table |-> S("Orders"), Name |-> S("Total"),
                Expression |-> S("SUM(Orders[Amount])")] >>
      [] dataset_id = <<"odd">> /\ view = "TABLES" -> << [Caption |-> S("Orders")] >>
      [] dataset_id = <<"odd">> /\ view = "COLUMNS" ->
            << [Caption |-> S("Amount"), Table |-> JNull] >>
      [] dataset_id = <<"big">> /\ view = "TABLES" -> << [Name |-> S("Big")] >>
      [] dataset_id = <<"big">> /\ view = "COLUMNS" ->
            << [Table |-> S("Big"), Name |-> S("A"), DataType |-> S("Text")],
               [Table |-> S("Big"), Name |-> S("B"), DataType |-> S("Text")],
               [Table |-> S("Big"), Name |-> S("C"), DataType |-> S("Text")],
               [Table |-> S("Big"), Name |-> S("D"), DataType |-> S("Text")] >>
      [] dataset_id = <<"facts">> /\ view = "TABLES" -> << [Table |-> S("Facts")] >>
      [] dataset_id = <<"facts">> /\ view = "COLUMNS" ->
            << [TableName |-> S("Facts"), ColumnName |-> S("Value"),
                Type |-> S("Double")] >>
      [] OTHER -> << >>

\* the values of a column, ascending, as the sampling query finds them;
\* found = FALSE: the column does not exist and the query is rejected
ColumnValues(dataset_id, table, column) ==
    IF dataset_id = <<"sales">> /\ table = <<"Customer">> /\ column = <<"Name">>
    THEN [found |-> TRUE,
          rows |-> << [value |-> S("Acme Co")], [value |-> JStr(<<" ">>)],
                      [value |-> S("JO-JanX")], [value |-> JNull] >>]
    ELSE IF dataset_id = <<"big">> /\ table = <<"Big">> /\ column = <<"A">>
    THEN [found |-> TRUE, rows |-> Codes(1, 70)]
    ELSE IF dataset_id = <<"big">> /\ table = <<"Big">> /\ column = <<"B">>
    THEN [found |-> TRUE, rows |-> Codes(41, 110)]
    ELSE IF dataset_id = <<"big">> /\ table = <<"Big">> /\ column = <<"C">>
    THEN [found |-> TRUE, rows |-> Codes(101, 170)]
    ELSE IF dataset_id = <<"big">> /\ table = <<"Big">> /\ column = <<"D">>
    THEN [found |-> TRUE, rows |-> Codes(201, 205)]
    ELSE IF dataset_id = <<"sales">> /\ table = <<"Orders">> /\ column = <<"Note">>
    THEN [found |-> TRUE,
          rows |-> << [value |-> S("Acme Co")], [value |-> S("Zed")] >>]
    ELSE [found |-> FALSE, rows |-> << >>]

(***************************************************************************)
(* build_schema_string                                                     *)
(***************************************************************************)
\* row[k] not in (None, "", [])
Usable(v) == ~(v.t = "null" \/ (v.t \in {"str", "list"} /\ v.v = <<>>))

\* bk = f"[{k}]"
Bracketed(k) ==
    CASE k = "Name" -> "[Name]" [] k = "Table" -> "[Table]"
      [] k = "TableName" -> "[TableName]" [] k = "Column" -> "[Column]"
      [] k = "ColumnName" -> "[ColumnName]" [] k = "DataType" -> "[DataType]"
      [] k = "Type" -> "[Type]" [] k = "Measure" -> "[Measure]"
      [] k = "MeasureName" -> "[MeasureName]" [] k = "Expression" -> "[Expression]"
      [] k = "DaxExpression" -> "[DaxExpression]" [] k = "FromTable" -> "[FromTable]"
      [] k = "FromColumn" -> "[FromColumn]" [] k = "ToTable" -> "[ToTable]"
      [] k = "ToColumn" -> "[ToColumn]"

\* _get_any: the first of keys, bare or bracketed, with a usable value;
\* JNull is Python's None
RECURSIVE _get_any(_, _)
_get_any(row, keys) ==
    IF keys = <<>> THEN JNull
    ELSE LET k == Head(keys)
             bk == Bracketed(k)
         IN  IF k \in DOMAIN row /\ Usable(row[k]) THEN row[k]
             ELSE IF bk \in DOMAIN row /\ Usable(row[bk]) THEN row[bk]
             ELSE _get_any(row, Tail(keys))

\* _norm: str(v).strip(), or None; the values here are strings
_norm(v) == IF v.t = "null" THEN JNull ELSE JStr(Strip(v.v))

\* "if name:" on a _norm result
Named(v) == Truthy(v)

table_names(tables) ==
    LET name(t) == _norm(_get_any(t, <<"Name", "Table", "TableName">>))
        kept == SelectSeq(tables, LAMBDA t : Named(name(t)))
    IN  [i \in 1..Len(kept) |-> name(kept[i]).v]

col_lines(cols) ==
    LET table(c) == _norm(_get_any(c, <<"Table", "TableName">>))
        col(c) == _norm(_get_any(c, <<"Name", "Column", "ColumnName">>))
        dtype(c) == _norm(_get_any(c, <<"DataType", "Type">>))
        kept == SelectSeq(cols, LAMBDA c : Named(table(c)) /\ Named(col(c)))
    IN  [i \in 1..Len(kept) |->
            [kind |-> "column", table |-> table(kept[i]).v, name |-> col(kept[i]).v,
             rest |-> IF Named(dtype(kept[i])) THEN dtype(kept[i]).v ELSE <<>>]]

meas_lines(meas) ==
    LET table(m) == _norm(_get_any(m, <<"Table", "TableName">>))
        name(m) == _norm(_get_any(m, <<"Name", "Measure", "MeasureName">>))
        expr(m) == _get_any(m, <<"Expression", "DaxExpression">>)
        kept == SelectSeq(meas, LAMBDA m : Named(table(m)) /\ Named(name(m)))
    IN  [i \in 1..Len(kept) |->
            [kind |-> "measure", table |-> table(kept[i]).v, name |-> name(kept[i]).v,
             rest |-> IF expr(kept[i]).t = "null" THEN <<>> ELSE expr(kept[i]).v]]

rel_lines(rels) ==
    LET ft(r) == _norm(_get_any(r, <<"FromTable">>))
        fc(r) == _norm(_get_any(r, <<"FromColumn">>))
        tt(r) == _norm(_get_any(r, <<"ToTable">>))
        tc(r) == _norm(_get_any(r, <<"ToColumn">>))
        kept == SelectSeq(rels, LAMBDA r : Named(ft(r)) /\ Named(fc(r))
                                            /\ Named(tt(r)) /\ Named(tc(r)))
    IN  [i \in 1..Len(kept) |->
            [kind |-> "rel", table |-> ft(kept[i]).v, name |-> fc(kept[i]).v,
             rest |-> tt(kept[i]).v \o tc(kept[i]).v]]

\* the order sorted() gives the table names of the datasets
NameRank(n) ==
    CASE n = <<"Customer">> -> 1 [] n = <<"Facts">> -> 2 [] n = <<"Orders">> -> 3
      [] OTHER -> 4

\* sorted(set(names))
RECURSIVE SortedSet(_)
SortedSet(names) ==
    IF names = {} THEN <<>>
    ELSE LET least == CHOOSE n \in names : \A m \in names : NameRank(n) <= NameRank(m)
         IN  <<least>> \o SortedSet(names \ {least})

Range(s) == {s[i] : i \in 1..Len(s)}

Header(h) == [kind |-> "header", table |-> <<>>, name |-> <<h>>, rest |-> <<>>]
BlankLine == [kind |-> "blank", table |-> <<>>, name |-> <<>>, rest |-> <<>>]

\* a build without the test for the empty schema
EmptySchemaNever(t, c, m, r) == FALSE

\* the four lists are all empty: the RuntimeError of build_schema_string
EmptySchema(t, c, m, r) == Len(t) = 0 /\ Len(c) = 0 /\ Len(m) = 0 /\ Len(r) = 0

\* a build that gives the empty text where there is no schema
build_schema_string_lenient(dataset_id) ==
    [raised |-> FALSE,
     text |-> IF table_names(InfoViewRows(dataset_id, "TABLES")) = <<>> THEN <<>>
              ELSE <<Header("TABLES:")>>]

\* the lines of the snapshot text; raised = TRUE is the RuntimeError
build_schema_string(dataset_id) ==
    LET t == table_names(InfoViewRows(dataset_id, "TABLES"))
        c == col_lines(InfoViewRows(dataset_id, "COLUMNS"))
        r == rel_lines(InfoViewRows(dataset_id, "RELATIONSHIPS"))
        m == meas_lines(InfoViewRows(dataset_id, "MEASURES"))
        names == SortedSet(Range(t))
    IN  IF EmptySchema(t, c, m, r) THEN [raised |-> TRUE, text |-> <<>>]
        ELSE [raised |-> FALSE,
              text |-> <<Header("TABLES:")>>
                    \o [i \in 1..Len(names) |->
                          [kind |-> "table", table |-> <<>>, name |-> names[i],
                           rest |-> <<>>]]
                    \o <<BlankLine, Header("COLUMNS")>> \o c
                    \o <<BlankLine, Header("MEASURES")>> \o m
                    \o <<BlankLine, Header("RELATIONSHIPS")>> \o r]

\* not text.strip(): no line of the text holds anything
IsBlank(text) == \A i \in 1..Len(text) : text[i].kind = "blank"

(***************************************************************************)
(* parse_schema_text_columns: the lines "- T[C] : type" whose type is text *)
(***************************************************************************)
parse_schema_text_columns(schema_text) ==
    LET hit == SelectSeq(schema_text,
                 LAMBDA l : l.kind = "column" /\ l.rest # <<>>
                            /\ Lower(Strip(l.rest)) = <<"text">>)
    IN  [i \in 1..Len(hit) |-> <<Strip(hit[i].table), Strip(hit[i].name)>>]

(***************************************************************************)
(* State                                                                   *)
(***************************************************************************)
VARIABLES
    env,            \* the scenario: the worker threads, the texts the model may return
    rel,            \* the call of chat_with_db (app/services/db_chat.py) under way
    _schema_cache,  \* the module-level dict: cache key -> snapshot text
    ncalls,         \* calls of chat_with_powerbi started so far
    pc,             \* per thread: where its call of chat_with_powerbi stands
    args,           \* per thread: the arguments of its call
    schema,         \* per thread: the local schema_cache
    vr,             \* per thread: the locals of resolve_user_value_if_needed
    question,       \* per thread: the local question (rebound by the resolver)
    resolution_note,\* per thread
    loop,           \* per thread: the locals of execute_with_feedback
    result,         \* per thread: what its last call returned or raised
    obs,            \* per thread: what the call has done to its collaborators
    served          \* cache key -> the snapshot its last completed cycle worked with

vars == << env, rel, _schema_cache, ncalls, pc, args, schema, vr, question,
           resolution_note, loop, result, obs, served >>

Threads == {1, 2}

\* calls of chat_with_powerbi explored in one behaviour
MaxCalls == 2

\* max_retries=2, as chat_with_powerbi passes it
max_retries == 2

\* Optional[str]
None == [some |-> FALSE, v |-> <<>>]
Some(s) == [some |-> TRUE, v |-> s]

Rich == env.outputs = "rich"

\* the tone arguments of a call: the two flags and the two Optional[str] texts
ToneTexts == {None, Some(<<>>), Some(<<" ">>), Some(<<" ", "Be formal.", "\n">>)}

NoToneArgs ==
    [custom_tone_schema_enabled |-> FALSE, custom_tone_rows_enabled |-> FALSE,
     custom_tone_schema |-> None, custom_tone_rows |-> None]

ToneArgs ==
    IF env.outputs = "tones"
    THEN [custom_tone_schema_enabled : BOOLEAN, custom_tone_rows_enabled : BOOLEAN,
          custom_tone_schema : ToneTexts, custom_tone_rows : ToneTexts]
    ELSE {NoToneArgs}

\* the built-in tones of the two answer prompts
DefaultSchemaTone == <<"You are a helpful, friendly data assistant.", "Human-friendly naming">>
DefaultRowsTone == <<"You are a helpful, friendly data assistant.", "Prefer short bullets">>

\* custom_tone_schema.strip() if custom_tone_schema_enabled and custom_tone_schema
\* else the default
schema_tone(enabled, custom) ==
    IF enabled /\ custom.some /\ custom.v # <<>> THEN Strip(custom.v)
    ELSE DefaultSchemaTone

\* custom_tone_rows.strip() if custom_tone_rows_enabled and custom_tone_rows
\* else the default
rows_tone(enabled, custom) ==
    IF enabled /\ custom.some /\ custom.v # <<>> THEN Strip(custom.v)
    ELSE DefaultRowsTone

(***************************************************************************)
(* What the collaborators may answer                                       *)
(***************************************************************************)
\* the credentials of a call (tenant_id, client_id, client_secret), by the
\* service principal they belong to
Callers == IF env.outputs = "callers" THEN {"a", "b"} ELSE {"a"}

\* what the Power BI service lets a principal read: "b" has no access to sales
CanRead(creds, dataset_id) == creds = "a" \/ dataset_id # <<"sales">>

Questions == {<<"orders", " ", "for", " ", "Jo", " ", "Janx">>}

\* texts the query generator and the corrector may return
DaxTexts ==
    IF Rich
    THEN { <<"EVALUATE", " ", "Q1">>,
           <<Fence, "dax", "\n", "evaluate", " ", "Q2", "\n", Fence>>,
           <<"Here", " ", "EVALUATE", " ", "Q3", " ">>,
           <<Fence, "Sorry", Fence, " ", "EVALUATE", " ", "Q1">>,
           <<"Sorry">> }
    ELSE { <<"EVALUATE", " ", "Q1">>, <<"Sorry">> }

\* what str(e) is when execute_dax raises
LiveErrors ==
    IF Rich THEN { <<"executeQueries failed (400)">>, <<"executeQueries failed (401)">> }
    ELSE { <<"executeQueries failed (400)">> }

\* the tables of a response, each one the number of its rows: row i of table t
\* is the pair (t, i)
Responses == IF Rich THEN {<<3, 250>>, <<250, 3>>} ELSE {<<3>>}

\* answer.content of the answer prompts
AnswerTexts == { <<" ", "It is 5.", "\n">> }

EmptySchemaMessage == <<"Schema extraction produced an empty schema.">>

NoResult ==
    [status |-> "none", answer |-> <<>>, resolution_note |-> <<>>, action |-> "",
     dax_attempts |-> <<>>, final_dax |-> <<>>, error |-> None, exc |-> ""]

\* the dict chat_with_powerbi returns
Returned(answer, note, action, attempts, final, error) ==
    [status |-> "returned", answer |-> answer, resolution_note |-> note,
     action |-> action, dax_attempts |-> attempts, final_dax |-> final,
     error |-> error, exc |-> ""]

\* an exception leaves chat_with_powerbi
Raised(exc) == [NoResult EXCEPT !.status = "raised", !.exc = exc]

NoVr == [user_value |-> <<>>, rewrite_question |-> <<>>, targets |-> <<>>,
         idx |-> 0, collected |-> <<>>, uniq |-> <<>>]

\* the second value execute_with_feedback returns: rows dumped as JSON, or a text
\* (rows are the n rows of a table from the first-th on)
RowsText(rows) == [kind |-> "rows", text |-> <<>>, n |-> rows.n,
                   table |-> rows.table, first |-> rows.first]
PlainText(s) == [kind |-> "text", text |-> s, n |-> 0, table |-> 0, first |-> 0]

\* ret: the return statement execute_with_feedback left by
NoLoop == [dax_text |-> <<>>, attempt |-> 0, attempt_logs |-> <<>>, dax |-> <<>>,
           err |-> <<>>, final_dax |-> <<>>, response_text |-> PlainText(<<>>),
           ret |-> ""]

\* live: the queries sent to the live source;  llm: the prompts sent to the
\* language model, each with the question it carried and the text that came back;
\* built: build_schema_string returned a snapshot;  hit: the cache held one
NoObs == [live |-> <<>>, llm |-> <<>>, built |-> FALSE, hit |-> FALSE]

\* a query went to the live source; ok: it returned, else err is str(e)
Sent(c, kind, q, ok, err) ==
    [obs EXCEPT ![c].live = Append(@, [kind |-> kind, q |-> q, ok |-> ok, err |-> err,
                                       tables |-> <<>>])]

\* ... and the live source answered with these tables
Answered(c, q, tables) ==
    [obs EXCEPT ![c].live = Append(@, [kind |-> "dax", q |-> q, ok |-> TRUE, err |-> <<>>,
                                       tables |-> tables])]

NoJson == RawText("none", JNull)

\* cache_key = f"{workspace_id}:{dataset_id}"
cache_key(workspace_id, dataset_id) == workspace_id \o <<":">> \o dataset_id

KeyOf(c) == cache_key(args[c].workspace_id, args[c].dataset_id)

\* no call of chat_with_db yet
NoRel == [pc |-> "idle", query |-> <<>>, executed |-> <<>>, response |-> <<>>,
          result |-> [action |-> "", sql_attempts |-> <<>>, final_sql |-> <<>>,
                      error |-> FALSE]]

Init0 ==
    /\ rel = NoRel
    /\ _schema_cache = << >>
    /\ ncalls = 0
    /\ pc = [c \in Threads |-> "idle"]
    /\ args = [c \in Threads |->
                 [question |-> <<>>, workspace_id |-> <<>>, dataset_id |-> <<>>,
                  tone |-> NoToneArgs, creds |-> "a"]]
    /\ schema = [c \in Threads |-> <<>>]
    /\ vr = [c \in Threads |-> NoVr]
    /\ question = [c \in Threads |-> <<>>]
    /\ resolution_note = [c \in Threads |-> <<>>]
    /\ loop = [c \in Threads |-> NoLoop]
    /\ result = [c \in Threads |-> NoResult]
    /\ obs = [c \in Threads |-> NoObs]
    /\ served = << >>

\* the module is imported; one worker thread serves the calls, one after another
Init == Init0 /\ env = [workers |-> {1}, outputs |-> "rich"]

\* two worker threads serve calls at the same time
InitConc == Init0 /\ env = [workers |-> {1, 2}, outputs |-> "lean"]

\* one worker thread, calls about the dataset with the long columns
InitPools == Init0 /\ env = [workers |-> {1}, outputs |-> "pools"]

\* one worker thread, calls by two service principals
InitCallers == Init0 /\ env = [workers |-> {1}, outputs |-> "callers"]

\* one worker thread, calls with every combination of the tone arguments
InitTones == Init0 /\ env = [workers |-> {1}, outputs |-> "tones"]

\* the call of thread c ends with res; its locals are gone.  snapshot is the
\* schema text the cycle worked with, if it got one
Finish(c, res, snapshot) ==
    /\ pc' = [pc EXCEPT ![c] = "idle"]
    /\ result' = [result EXCEPT ![c] = res]
    /\ schema' = [schema EXCEPT ![c] = <<>>]
    /\ vr' = [vr EXCEPT ![c] = NoVr]
    /\ question' = [question EXCEPT ![c] = <<>>]
    /\ resolution_note' = [resolution_note EXCEPT ![c] = <<>>]
    /\ loop' = [loop EXCEPT ![c] = NoLoop]
    /\ served' = IF snapshot.some THEN (KeyOf(c) :> snapshot.v) @@ served ELSE served

(***************************************************************************)
(* chat_with_powerbi: the token and the schema                             *)
(***************************************************************************)
\* a route calls chat_with_powerbi on worker thread c
Call(c) ==
    /\ pc[c] = "idle" /\ ncalls < MaxCalls
    /\ \E q \in Questions, w \in Workspaces,
          d \in CASE Rich -> Datasets [] env.outputs = "pools" -> PoolDatasets
                   [] OTHER -> LeanDatasets,
          t \in ToneArgs, cr \in Callers :
          /\ args' = [args EXCEPT ![c] =
                        [question |-> q, workspace_id |-> w, dataset_id |-> d,
                         tone |-> t, creds |-> cr]]
          /\ question' = [question EXCEPT ![c] = q]
    /\ ncalls' = ncalls + 1
    /\ pc' = [pc EXCEPT ![c] = "token"]
    /\ result' = [result EXCEPT ![c] = NoResult]
    /\ obs' = [obs EXCEPT ![c] = NoObs]
    /\ UNCHANGED << env, rel, _schema_cache, schema, vr, resolution_note, loop, served >>

\* get_powerbi_token returns
GetTokenOk(c) ==
    /\ pc[c] = "token"
    /\ pc' = [pc EXCEPT ![c] = "cache_get"]
    /\ UNCHANGED << env, rel, _schema_cache, ncalls, args, schema, vr, question,
                    resolution_note, loop, result, obs, served >>

\* get_powerbi_token raises: nothing catches it
GetTokenFails(c) ==
    /\ pc[c] = "token"
    /\ Finish(c, Raised("RuntimeError"), None)
    /\ UNCHANGED << env, rel, _schema_cache, ncalls, args, obs >>

\* a cycle that never trusts the cache
AlwaysBuild(cached) == TRUE

\* "if not schema_cache", and on the else branch "if not schema_cache.strip()"
NeedsBuild(cached) == ~cached.some \/ cached.v = <<>> \/ IsBlank(cached.v)

\* schema_cache = _schema_cache.get(cache_key)
CacheGet(c) ==
    /\ pc[c] = "cache_get"
    /\ LET cached == IF KeyOf(c) \in DOMAIN _schema_cache
                     THEN Some(_schema_cache[KeyOf(c)]) ELSE None
       IN  /\ schema' = [schema EXCEPT ![c] = cached.v]
           /\ pc' = [pc EXCEPT ![c] = IF NeedsBuild(cached) THEN "build" ELSE "resolve"]
           /\ obs' = [obs EXCEPT ![c].hit = ~NeedsBuild(cached)]
    /\ UNCHANGED << env, rel, _schema_cache, ncalls, args, vr, question,
                    resolution_note, loop, result, served >>

\* build_schema_string returns the snapshot text
BuildOk(c) ==
    /\ pc[c] = "build"
    /\ CanRead(args[c].creds, args[c].dataset_id)
    /\ ~build_schema_string(args[c].dataset_id).raised
    /\ schema' = [schema EXCEPT ![c] = build_schema_string(args[c].dataset_id).text]
    /\ obs' = [Sent(c, "schema", <<>>, TRUE, <<>>) EXCEPT ![c].built = TRUE]
    /\ pc' = [pc EXCEPT ![c] = "store"]
    /\ UNCHANGED << env, rel, _schema_cache, ncalls, args, vr, question,
                    resolution_note, loop, result, served >>

\* the result of "except Exception as e" around build_schema_string
SchemaError(e) ==
    Returned(<<"Failed to load schema: ">> \o e, <<>>, "ERROR", <<>>, <<>>, Some(e))

\* build_schema_string raises: an INFO.VIEW query failed, or the schema is empty
BuildFails(c) ==
    /\ pc[c] = "build"
    /\ \E e \in LiveErrors \cup {EmptySchemaMessage} :
          /\ e = EmptySchemaMessage => build_schema_string(args[c].dataset_id).raised
          /\ Finish(c, SchemaError(e), None)
          /\ obs' = Sent(c, "schema", <<>>, FALSE, e)
    /\ UNCHANGED << env, rel, _schema_cache, ncalls, args >>

\* _schema_cache[cache_key] = schema_cache
CacheStore(c) ==
    /\ pc[c] = "store"
    /\ _schema_cache' = (KeyOf(c) :> schema[c]) @@ _schema_cache
    /\ pc' = [pc EXCEPT ![c] = "resolve"]
    /\ UNCHANGED << env, rel, ncalls, args, schema, vr, question, resolution_note,
                    loop, result, obs, served >>

(***************************************************************************)
(* resolve_user_value_if_needed                                            *)
(***************************************************************************)
\* targets[:3]
TargetCap == 3
\* sample_distinct_values(..., limit=60)
SampleLimit == 60
\* "if len(uniq) >= 120: break"
PoolCap == 120

Target(table, column) == JObj([table |-> S(table), column |-> S(column)])

VrPlanObj(need, targets, user_value, rewrite) ==
    JObj([need_resolution |-> JBool(need), targets |-> targets,
          user_value |-> user_value, rewrite_question |-> rewrite])

Rewrite == JStr(<<" ", "orders", " ", "of", " ", "Jo", " ", "Janx", "\n">>)

\* texts VALUE_RESOLUTION_PLAN_PROMPT may come back with
VrPlanOutputs ==
    IF Rich
    THEN { RawText("empty", JNull), RawText("plain", JNull), RawText("braces", JNull),
           RawText("json", JObj([need_resolution |-> JBool(FALSE)])),
           RawText("json", VrPlanObj(FALSE, JList(<<>>), JStr(<<>>), Rewrite)),
           RawText("json", VrPlanObj(FALSE, JList(<<>>), JStr(<<>>), JNum(5))),
           RawText("json", JList(<<>>)),
           RawText("wrapped", VrPlanObj(TRUE, JList(<<Target("Customer", "Name")>>),
                                        JStr(<<"jo", " ", "janx">>), Rewrite)),
           RawText("json", VrPlanObj(TRUE,
                        JList(<< Target("Customer", "Name"), Target("Missing", "Col"),
                                 JObj([table |-> S("Customer")]),
                                 Target("Orders", "Note") >>),
                        JStr(<<" ", "Akme", " ">>), JNull)),
           RawText("json", VrPlanObj(TRUE, JList(<<Target("Missing", "Col")>>),
                                     S("Akme"), JNull)),
           RawText("json", VrPlanObj(TRUE, JList(<<Target("Customer", "Name")>>),
                                     JNull, Rewrite)),
           RawText("json", VrPlanObj(TRUE, S("Customer"), S("Akme"), Rewrite)),
           RawText("json", VrPlanObj(TRUE, JList(<<S("Customer")>>), S("Akme"), JNull)) }
    ELSE IF env.outputs = "pools"
    THEN { RawText("plain", JNull),
           RawText("json", VrPlanObj(TRUE,
                        JList(<< Target("Big", "A"), Target("Big", "B"),
                                 Target("Big", "C"), Target("Big", "D") >>),
                        JStr(<<"jo", " ", "janx">>), Rewrite)) }
    ELSE { RawText("plain", JNull),
           RawText("json", VrPlanObj(TRUE, JList(<<Target("Customer", "Name")>>),
                                     JStr(<<"jo", " ", "janx">>), JNull)) }

VrMatchObj(resolved, alternatives) ==
    JObj([resolved |-> resolved, alternatives |-> alternatives])

\* texts VALUE_RESOLUTION_PROMPT may come back with
VrMatchOutputs ==
    IF Rich
    THEN { RawText("plain", JNull), RawText("json", JNull),
           RawText("json", VrMatchObj(S("JO-JanX"), JList(<<>>))),
           RawText("wrapped", VrMatchObj(JStr(<<" ", "JO-JanX", " ">>),
                                         JList(<<S("Acme Co")>>))),
           RawText("json", VrMatchObj(JNull,
                        JList(<<S("Acme Co"), S("JO-JanX"), S("Zed"), S("Extra")>>))),
           RawText("json", VrMatchObj(JNull, JList(<<>>))),
           RawText("json", JObj([resolved |-> S("Nowhere")])),
           RawText("json", VrMatchObj(JStr(<<" ">>), JNull)),
           RawText("json", VrMatchObj(JNull, JList(<<JNum(1)>>))),
           RawText("json", VrMatchObj(JNum(5), S("abc"))) }
    ELSE { RawText("plain", JNull),
           RawText("json", VrMatchObj(S("JO-JanX"), JList(<<>>))) }

\* x or []
OrEmptyList(x) == IF Truthy(x) THEN x ELSE JList(<<>>)

\* a slice that keeps everything
TakeAll(s, n) == s

\* s[:n]
Take(s, n) == SubSeq(s, 1, IF Len(s) < n THEN Len(s) ELSE n)

\* the rows the sampling query returns, TOPN(limit, ...), turned into vals
sample_distinct_values(dataset_id, table, column, limit) ==
    LET found == ColumnValues(dataset_id, table, column)
        rows == Take(found.rows, limit)
        kept == SelectSeq(rows, LAMBDA r :
                    LET v == Get(JObj(r), "value")
                    IN  v.t # "null" /\ Strip(v.v) # <<>>)
    IN  [i \in 1..Len(kept) |-> kept[i].value.v]

\* the deduplication loop, with its cap: the values of collected not seen
\* before, in order, added to uniq until it holds PoolCap of them
Dedupe(collected, uniq) ==
    LET fresh == SelectSeq([i \in 1..Len(collected) |-> i],
                    LAMBDA i : /\ collected[i] \notin Range(uniq)
                               /\ \A j \in 1..(i - 1) : collected[j] # collected[i])
        room == IF Len(uniq) < PoolCap THEN PoolCap - Len(uniq) ELSE 0
    IN  uniq \o [k \in 1..(IF Len(fresh) < room THEN Len(fresh) ELSE room) |->
                    collected[fresh[k]]]

\* where pat matches s, ignoring case
MatchesAt(s, pat, i) ==
    /\ i + Len(pat) - 1 <= Len(s)
    /\ SubSeq(Lower(s), i, i + Len(pat) - 1) = Lower(pat)

\* a test for the value that minds the case
ContainsCS(s, pat) ==
    \E i \in 1..Len(s) : i + Len(pat) - 1 <= Len(s) /\ SubSeq(s, i, i + Len(pat) - 1) = pat

\* user_value.lower() in rewrite_question.lower()
ContainsCI(s, pat) == \E i \in 1..Len(s) : MatchesAt(s, pat, i)

\* re.compile(re.escape(pat), re.I).sub(rep, s)
RECURSIVE SubAll(_, _, _)
SubAll(s, pat, rep) ==
    IF s = <<>> THEN <<>>
    ELSE IF MatchesAt(s, pat, 1)
    THEN rep \o SubAll(SubSeq(s, Len(pat) + 1, Len(s)), pat, rep)
    ELSE <<Head(s)>> \o SubAll(Tail(s), pat, rep)

\* ', '.join(items); raised is the TypeError for an item that is no str
RECURSIVE Join(_)
Join(items) ==
    IF items = <<>> THEN <<>>
    ELSE IF Len(items) = 1 THEN Head(items).v
    ELSE Head(items).v \o <<", ">> \o Join(Tail(items))

AllStr(items) == \A i \in 1..Len(items) : items[i].t = "str"

\* resolve_user_value_if_needed returns: back in chat_with_powerbi, at the planner
VrReturn(c, q, note) ==
    /\ question' = [question EXCEPT ![c] = q]
    /\ resolution_note' = [resolution_note EXCEPT ![c] = note]
    /\ vr' = [vr EXCEPT ![c] = NoVr]
    /\ pc' = [pc EXCEPT ![c] = "plan"]
    /\ UNCHANGED << result, served, schema, loop >>

\* an exception leaves chat_with_powerbi
Raise(c, exc) == Finish(c, Raised(exc), Some(schema[c]))

\* a prompt went to the language model with question q, and json (a text meant
\* to be JSON) or text came back
Asked(c, prompt, q, json, text) ==
    [obs EXCEPT ![c].llm = Append(@, [prompt |-> prompt, question |-> q, ok |-> TRUE,
                                      json |-> json, text |-> text,
                                      schema |-> schema[c], tone |-> <<>>,
                                      dax |-> <<>>, error |-> <<>>, values |-> <<>>])]

\* the corrector prompt went to the language model, with the query that failed
\* and the error text of its execution
AskedFix(c, q, dax, err, text) ==
    [obs EXCEPT ![c].llm = Append(@, [prompt |-> "FIX", question |-> q, ok |-> TRUE,
                                      json |-> NoJson, text |-> text,
                                      schema |-> schema[c], tone |-> <<>>,
                                      dax |-> dax, error |-> err, values |-> <<>>])]

\* the matching prompt went to the language model, with the candidate values
AskedMatch(c, q, values, json) ==
    [obs EXCEPT ![c].llm = Append(@, [prompt |-> "VALUE_RESOLUTION", question |-> q,
                                      ok |-> TRUE, json |-> json, text |-> <<>>,
                                      schema |-> schema[c], tone |-> <<>>,
                                      dax |-> <<>>, error |-> <<>>,
                                      values |-> values])]

\* an answer prompt went to the language model, with its tone
AskedAnswer(c, prompt, q, tone, text) ==
    [obs EXCEPT ![c].llm = Append(@, [prompt |-> prompt, question |-> q, ok |-> TRUE,
                                      json |-> NoJson, text |-> text,
                                      schema |-> schema[c], tone |-> tone,
                                      dax |-> <<>>, error |-> <<>>, values |-> <<>>])]

\* the steps after the resolver are given the question of the call
HandedOriginal(c) == args[c].question

\* the question the steps after the resolver are given: the local variable
\* question, rebound at line 567
Handed(c) == question[c]

\* the prompt a thread at pc is waiting on
PromptAt(at) ==
    CASE at = "vr_plan" -> "VALUE_RESOLUTION_PLAN" [] at = "vr_match" -> "VALUE_RESOLUTION"
      [] at = "plan" -> "PLAN" [] at = "describe" -> "ANSWER_FROM_SCHEMA"
      [] at = "generate" -> "DAX" [] at = "fix" -> "FIX"
      [] at = "answer_rows" -> "ANSWER_FROM_ROWS"

\* steps that drop the cache as they go
FrameDroppingCache == _schema_cache' = << >> /\ UNCHANGED << env, rel, ncalls, args >>

\* the schema phase is over for thread c: nothing but what the step names changes
Frame == UNCHANGED << env, rel, _schema_cache, ncalls, args >>

\* the checks before the first model call
ResolveEntry(c) ==
    /\ pc[c] = "resolve"
    /\ IF IsBlank(schema[c]) \/ parse_schema_text_columns(schema[c]) = <<>>
       THEN VrReturn(c, question[c], <<>>)
       ELSE /\ pc' = [pc EXCEPT ![c] = "vr_plan"]
            /\ UNCHANGED << schema, vr, question, resolution_note, loop, result, served >>
    /\ obs' = obs
    /\ Frame

\* rq = (plan.get("rewrite_question") or "").strip() or question
RewriteOr(rw, q) == IF rw.s # <<>> THEN rw.s ELSE q

\* the resolution plan comes back: lines 383-396
VrPlan(c) ==
    /\ pc[c] = "vr_plan"
    /\ \E plan_text \in VrPlanOutputs :
        LET plan == parse_json_maybe(plan_text)
            need == Truthy(Get(plan, "need_resolution"))
            rw == OrEmptyStrip(Get(plan, "rewrite_question"))
            targets == OrEmptyList(Get(plan, "targets"))
            uv == OrEmptyStrip(Get(plan, "user_value"))
        IN  /\ obs' = Asked(c, "VALUE_RESOLUTION_PLAN", question[c], plan_text, <<>>)
            /\ IF plan.t # "obj" THEN Raise(c, "AttributeError")
               ELSE IF ~need
               THEN IF rw.raised THEN Raise(c, "AttributeError")
                    ELSE VrReturn(c, RewriteOr(rw, question[c]), <<>>)
               ELSE IF uv.raised \/ rw.raised THEN Raise(c, "AttributeError")
               ELSE IF uv.s = <<>> \/ targets.t # "list" \/ Len(targets.v) = 0
               THEN VrReturn(c, RewriteOr(rw, question[c]), <<>>)
               ELSE /\ vr' = [vr EXCEPT ![c] =
                               [NoVr EXCEPT !.user_value = uv.s,
                                            !.rewrite_question = RewriteOr(rw, question[c]),
                                            !.targets = Take(targets.v, TargetCap),
                                            !.idx = 1]]
                    /\ pc' = [pc EXCEPT ![c] = "vr_sample"]
                    /\ UNCHANGED << schema, question, resolution_note, loop, result,
                                    served >>
    /\ Frame

\* one round of "for t in targets[:3]", and after the last one the
\* deduplication and "if not uniq"
VrSample(c) ==
    /\ pc[c] = "vr_sample"
    /\ LET t == vr[c].targets[vr[c].idx]
           table == OrEmptyStrip(Get(t, "table"))
           col == OrEmptyStrip(Get(t, "column"))
           skip == table.s = <<>> \/ col.s = <<>>
           last == vr[c].idx = Len(vr[c].targets)
       IN  IF t.t # "obj" \/ table.raised \/ col.raised
           THEN Raise(c, "AttributeError") /\ obs' = obs
           ELSE \E ok \in BOOLEAN :
                LET vals == IF skip \/ ~ok THEN <<>>
                            ELSE sample_distinct_values(args[c].dataset_id,
                                                        table.s, col.s, SampleLimit)
                    collected == vr[c].collected \o vals
                    uniq == Dedupe(collected, <<>>)
                IN  /\ skip => ok
                    /\ (ok /\ ~skip) => CanRead(args[c].creds, args[c].dataset_id)
                    /\ obs' = IF skip THEN obs
                              ELSE Sent(c, "sample", table.s \o col.s, ok, <<>>)
                    /\ IF last /\ uniq = <<>>
                       THEN VrReturn(c, vr[c].rewrite_question, <<>>)
                       ELSE /\ vr' = [vr EXCEPT ![c].collected = collected,
                                                ![c].idx = @ + 1,
                                                ![c].uniq = IF last THEN uniq ELSE <<>>]
                            /\ pc' = [pc EXCEPT ![c] = IF last THEN "vr_match"
                                                       ELSE "vr_sample"]
                            /\ UNCHANGED << schema, question, resolution_note, loop,
                                            result, served >>
    /\ Frame

\* the match comes back: lines 420-442
VrMatch(c) ==
    /\ pc[c] = "vr_match"
    /\ \E res_text \in VrMatchOutputs :
        LET res == parse_json_maybe(res_text)
            resolved == Get(res, "resolved")
            alts == OrEmptyList(Get(res, "alternatives"))
            uv == vr[c].user_value
            rq == vr[c].rewrite_question
            new_q == IF ContainsCI(rq, uv) THEN SubAll(rq, uv, Strip(resolved.v))
                     ELSE rq \o <<" (value: ">> \o Strip(resolved.v) \o <<")">>
        IN  /\ obs' = AskedMatch(c, question[c], vr[c].uniq, res_text)
            /\ IF res.t # "obj" THEN Raise(c, "AttributeError")
               ELSE IF resolved.t = "str" /\ Strip(resolved.v) # <<>>
               THEN VrReturn(c, new_q, <<"Interpreting '">> \o uv \o <<"' as '">>
                                           \o Strip(resolved.v) \o <<"'.">>)
               ELSE IF alts.t = "list" /\ Len(alts.v) > 0
               THEN IF ~AllStr(Take(alts.v, 3)) THEN Raise(c, "TypeError")
                    ELSE VrReturn(c, rq, <<"I found similar values for '">> \o uv
                                        \o <<"': ">> \o Join(Take(alts.v, 3))
                                        \o <<". If you meant one of these, tell me.">>)
               ELSE VrReturn(c, rq, <<>>)
    /\ Frame

(***************************************************************************)
(* chat_with_powerbi: the planner and the DESCRIBE path                    *)
(***************************************************************************)
PlanObj(action, dax) == JObj([action |-> action, reason |-> S("because"), dax |-> dax])

\* texts PLAN_PROMPT may come back with
PlanOutputs ==
    IF Rich
    THEN { RawText("empty", JNull), RawText("plain", JNull), RawText("braces", JNull),
           RawText("json", PlanObj(S("DESCRIBE"), JStr(<<>>))),
           RawText("json", PlanObj(S("QUERY"), JStr(<<"EVALUATE", " ", "Q1">>))),
           RawText("wrapped", PlanObj(JStr(<<" ", "query", "\n">>), JStr(<<" ">>))),
           RawText("json", PlanObj(S("QUERY"),
                JStr(<<"\n", Fence, "dax", "\n", "evaluate", " ", "Q2", "\n", Fence>>))),
           RawText("json", PlanObj(S("QUERY"), S("Sorry"))),
           RawText("json", PlanObj(S("fetch"), JStr(<<"EVALUATE", " ", "Q1">>))),
           RawText("json", PlanObj(JNull, JStr(<<"EVALUATE", " ", "Q1">>))),
           RawText("json", JObj([reason |-> S("because")])),
           RawText("json", PlanObj(JStr(<<" ">>), JNull)),
           RawText("json", PlanObj(JNum(5), JStr(<<>>))),
           RawText("json", PlanObj(S("DESCRIBE"), JNum(5))),
           RawText("json", JList(<<PlanObj(S("QUERY"), JStr(<<>>))>>)) }
    ELSE { RawText("plain", JNull),
           RawText("json", PlanObj(S("QUERY"), JStr(<<"EVALUATE", " ", "Q1">>))),
           RawText("json", PlanObj(S("QUERY"), JStr(<<>>))) }

\* action = (plan.get("action") or "").strip().upper()
PlanAction(plan) ==
    LET a == OrEmptyStrip(Get(plan, "action"))
    IN  [raised |-> a.raised, s |-> Upper(a.s)]

\* a planner whose candidate query is never looked at
PlanDaxIgnored(plan) == [raised |-> FALSE, s |-> <<>>]

\* dax_from_plan = (plan.get("dax") or "").strip()
PlanDax(plan) == OrEmptyStrip(Get(plan, "dax"))

\* where the plan sends the cycle: "if action == 'DESCRIBE' or not action",
\* "if action == 'QUERY'", and the fallback
Route(action) ==
    IF action = <<"DESCRIBE">> \/ action = <<>> THEN "DESCRIBE"
    ELSE IF action = <<"QUERY">> THEN "QUERY"
    ELSE "FALLBACK"

\* the plan comes back: lines 572-579, 619-622
Planner(c) ==
    /\ pc[c] = "plan"
    /\ \E plan_text \in PlanOutputs :
        LET plan == parse_json_maybe(plan_text)
            action == PlanAction(plan)
            dax_from_plan == PlanDax(plan)
        IN  /\ obs' = Asked(c, "PLAN", Handed(c), plan_text, <<>>)
            /\ IF plan.t # "obj" \/ action.raised \/ dax_from_plan.raised
               THEN Raise(c, "AttributeError")
               ELSE /\ IF Route(action.s) = "QUERY"
                       THEN IF dax_from_plan.s # <<>>
                            THEN /\ loop' = [loop EXCEPT ![c] =
                                        [NoLoop EXCEPT !.dax_text = dax_from_plan.s]]
                                 /\ pc' = [pc EXCEPT ![c] = "loop"]
                            ELSE /\ loop' = loop
                                 /\ pc' = [pc EXCEPT ![c] = "generate"]
                       ELSE /\ loop' = loop
                            /\ pc' = [pc EXCEPT ![c] = "describe"]
                    /\ UNCHANGED << schema, vr, question, resolution_note, result,
                                    served >>
    /\ Frame

\* ANSWER_FROM_SCHEMA_PROMPT answers; both DESCRIBE returns build the same dict
Describe(c) ==
    /\ pc[c] = "describe"
    /\ \E content \in AnswerTexts :
          /\ Finish(c, Returned(Strip(content), resolution_note[c], "DESCRIBE",
                                <<>>, <<>>, None), Some(schema[c]))
          /\ obs' = AskedAnswer(c, "ANSWER_FROM_SCHEMA", Handed(c),
                                 schema_tone(args[c].tone.custom_tone_schema_enabled,
                                             args[c].tone.custom_tone_schema),
                                 content)
    /\ Frame

\* DAX_PROMPT answers: the initial text of the feedback loop
Generate(c) ==
    /\ pc[c] = "generate"
    /\ \E text \in DaxTexts :
          /\ loop' = [loop EXCEPT ![c] = [NoLoop EXCEPT !.dax_text = text]]
          /\ obs' = Asked(c, "DAX", Handed(c), NoJson, text)
    /\ pc' = [pc EXCEPT ![c] = "loop"]
    /\ UNCHANGED << schema, vr, question, resolution_note, result, served >>
    /\ Frame

(***************************************************************************)
(* execute_with_feedback                                                   *)
(***************************************************************************)
\* rows[:200]
RowCap == 200

\* for attempt in range(max_retries + 1): the loop goes on
InRange(attempt, retries) == attempt < retries + 1

\* a loop variable that is never advanced
KeepAttempt(attempt) == attempt

\* the next value of the loop variable
NextAttempt(attempt) == attempt + 1

\* a test that lets one more round through
LastAttemptLate(attempt, retries) == attempt = retries + 1

\* if attempt == max_retries
LastAttempt(attempt, retries) == attempt = retries

\* execute_with_feedback returns (final_dax, response_text, attempt_logs); its
\* other locals are gone
LoopReturn(c, ret, final, text, logs) ==
    /\ loop' = [loop EXCEPT ![c] =
                  [NoLoop EXCEPT !.ret = ret, !.final_dax = final,
                                 !.response_text = text, !.attempt_logs = logs]]
    /\ pc' = [pc EXCEPT ![c] = "answer_rows"]

\* what a step inside execute_with_feedback leaves alone
LoopFrame == UNCHANGED << schema, vr, question, resolution_note, result, served >>

\* an attempt list that holds each query text once
RecordedOnce(attempt_logs, dax) ==
    IF \E i \in 1..Len(attempt_logs) : attempt_logs[i] = dax THEN attempt_logs
    ELSE Append(attempt_logs, dax)

\* attempt_logs.append(dax)
Recorded(attempt_logs, dax) == Append(attempt_logs, dax)

\* the top of one round: extraction, the test for EVALUATE, the append
LoopIter(c) ==
    /\ pc[c] = "loop"
    /\ LET l == loop[c]
           dax == ExtractedOrStripped(l.dax_text)
       IN  IF ~InRange(l.attempt, max_retries)
           THEN LoopReturn(c, "unexpected", <<>>,
                           PlainText(<<"Unexpected state in feedback loop">>),
                           l.attempt_logs)
           ELSE IF ~Executable(dax)
           THEN LoopReturn(c, "no_dax", <<>>, PlainText(l.dax_text), l.attempt_logs)
           ELSE /\ loop' = [loop EXCEPT ![c].dax = dax,
                                        ![c].attempt_logs = Recorded(@, dax)]
                /\ pc' = [pc EXCEPT ![c] = "execute"]
    /\ obs' = obs
    /\ LoopFrame /\ Frame

\* the rows of the last table, a choice _first_table_rows does not make
_last_table_rows(resp) == [table |-> Len(resp), first |-> 1, n |-> resp[Len(resp)]]

\* resp_json["results"][0]["tables"][0]["rows"]
_first_table_rows(resp) == [table |-> 1, first |-> 1, n |-> resp[1]]

\* rows[:k]
Slice(rows, k) == [rows EXCEPT !.n = IF rows.n < k THEN rows.n ELSE k]

\* execute_dax returns: the first 200 rows of the first table
ExecuteOk(c) ==
    /\ pc[c] = "execute"
    /\ CanRead(args[c].creds, args[c].dataset_id)
    /\ \E resp \in Responses :
          /\ LoopReturn(c, "rows", loop[c].dax,
                        RowsText(Slice(_first_table_rows(resp), RowCap)),
                        loop[c].attempt_logs)
          /\ obs' = Answered(c, loop[c].dax, resp)
    /\ LoopFrame /\ Frame

\* execute_dax raises
ExecuteFails(c) ==
    /\ pc[c] = "execute"
    /\ \E err \in LiveErrors :
          /\ IF LastAttempt(loop[c].attempt, max_retries)
             THEN LoopReturn(c, "error", loop[c].dax,
                          PlainText(<<"DAX execution error: ">> \o err
                                    \o <<"\n", "\n", "Last attempted DAX:", "\n">>
                                    \o loop[c].dax),
                          loop[c].attempt_logs)
             ELSE /\ loop' = [loop EXCEPT ![c].err = err]
                  /\ pc' = [pc EXCEPT ![c] = "fix"]
          /\ obs' = Sent(c, "dax", loop[c].dax, FALSE, err)
    /\ LoopFrame /\ Frame

\* FIX_PROMPT answers: the text of the next round
Fix(c) ==
    /\ pc[c] = "fix"
    /\ \E text \in DaxTexts :
          /\ loop' = [loop EXCEPT ![c].dax_text = text,
                                  ![c].attempt = NextAttempt(@)]
          /\ obs' = AskedFix(c, Handed(c), loop[c].dax, loop[c].err, text)
    /\ pc' = [pc EXCEPT ![c] = "loop"]
    /\ LoopFrame /\ Frame

(***************************************************************************)
(* chat_with_powerbi: the QUERY result                                     *)
(***************************************************************************)
\* the condition of the error field the other way round
QueryErrorInverted(final_dax) ==
    IF final_dax = <<>> THEN None ELSE Some(<<"DAX execution failed">>)

\* "error": None if final_dax else "DAX execution failed"
QueryError(final_dax) ==
    IF final_dax # <<>> THEN None ELSE Some(<<"DAX execution failed">>)

\* the action of the dict returned after the feedback loop
QueryAction(final_dax) == "QUERY"

\* ANSWER_FROM_ROWS_PROMPT answers: lines 650-664
AnswerRows(c) ==
    /\ pc[c] = "answer_rows"
    /\ \E content \in AnswerTexts :
          /\ Finish(c, Returned(Strip(content), resolution_note[c],
                                QueryAction(loop[c].final_dax), loop[c].attempt_logs,
                                loop[c].final_dax, QueryError(loop[c].final_dax)),
                    Some(schema[c]))
          /\ obs' = AskedAnswer(c, "ANSWER_FROM_ROWS", Handed(c),
                                 rows_tone(args[c].tone.custom_tone_rows_enabled,
                                           args[c].tone.custom_tone_rows),
                                 content)
    /\ Frame

\* a call of the language model raises: nothing catches it
LlmRaises(c) ==
    /\ pc[c] \in {"vr_plan", "vr_match", "plan", "describe", "generate", "fix",
                  "answer_rows"}
    /\ Raise(c, "APIError")
    /\ obs' = [obs EXCEPT ![c].llm = Append(@,
                  [prompt |-> PromptAt(pc[c]), question |-> question[c], ok |-> FALSE,
                   json |-> NoJson, text |-> <<>>, schema |-> schema[c],
                   tone |-> <<>>,
                   dax |-> IF pc[c] = "fix" THEN loop[c].dax ELSE <<>>,
                   error |-> IF pc[c] = "fix" THEN loop[c].err ELSE <<>>,
                   values |-> IF pc[c] = "vr_match" THEN vr[c].uniq ELSE <<>>])]
    /\ Frame

(***************************************************************************)
(* The specifications                                                      *)
(***************************************************************************)
Next ==
    \/ \E c \in env.workers : Call(c)
    \/ \E c \in env.workers : GetTokenOk(c)
    \/ \E c \in env.workers : GetTokenFails(c)
    \/ \E c \in env.workers : CacheGet(c)
    \/ \E c \in env.workers : BuildOk(c)
    \/ \E c \in env.workers : BuildFails(c)
    \/ \E c \in env.workers : CacheStore(c)
    \/ \E c \in env.workers : ResolveEntry(c)
    \/ \E c \in env.workers : VrPlan(c)
    \/ \E c \in env.workers : VrSample(c)
    \/ \E c \in env.workers : VrMatch(c)
    \/ \E c \in env.workers : Planner(c)
    \/ \E c \in env.workers : Describe(c)
    \/ \E c \in env.workers : Generate(c)
    \/ \E c \in env.workers : LoopIter(c)
    \/ \E c \in env.workers : ExecuteOk(c)
    \/ \E c \in env.workers : ExecuteFails(c)
    \/ \E c \in env.workers : Fix(c)
    \/ \E c \in env.workers : AnswerRows(c)
    \/ \E c \in env.workers : LlmRaises(c)

\* one worker thread: answer cycles one after another
Spec == Init /\ [][Next]_vars

\* two worker threads: answer cycles side by side
SpecConc == InitConc /\ [][Next]_vars

\* one worker thread, the dataset with the long columns
SpecPools == InitPools /\ [][Next]_vars

\* one worker thread, callers with different credentials
SpecCallers == InitCallers /\ [][Next]_vars

\* one worker thread, the tone arguments varied
SpecTones == InitTones /\ [][Next]_vars

(***************************************************************************)
(* The relational chain of app/services/db_chat.py: chat_with_db, one call *)
(* after another.                                                          *)
(***************************************************************************)
\* what the regex (SELECT|WITH|INSERT|UPDATE|DELETE|CREATE|ALTER|DROP)\b, with
\* (?i), finds in one atom: the atom from the keyword on, or nothing.  No word
\* boundary is asked for before the keyword, one is after it.
KeywordTail(a) ==
    CASE a \in {"SELECT", "select", "DROP", "with"} -> <<a>>
      [] a = "preselect" -> <<"select">>
      [] OTHER -> <<>>

SqlKeywordPos(text) == {i \in 1..Len(text) : KeywordTail(text[i]) # <<>>}

\* re.search(r"[fence](?:sql)?\s*(.*?)\s*[fence]", text, re.S | re.I)
FencedSql(text) ==
    LET open == Min({i \in FencePos(text) : \E j \in FencePos(text) : j > i})
        close == Min({j \in FencePos(text) : j > open})
        from == IF open + 1 < close /\ text[open + 1] \in {"sql", "SQL"}
                THEN open + 2 ELSE open + 1
    IN  Strip(SubSeq(text, from, close - 1))

\* an extraction that knows the fenced block only
_extract_sql_fenced_only(text) ==
    IF Cardinality(FencePos(text)) >= 2
    THEN [found |-> TRUE, s |-> Strip(FencedSql(text))]
    ELSE [found |-> FALSE, s |-> <<>>]

\* found = FALSE is Python's None
_extract_sql_from_text(text) ==
    IF Cardinality(FencePos(text)) >= 2
    THEN [found |-> TRUE, s |-> Strip(FencedSql(text))]
    ELSE IF SqlKeywordPos(text) # {}
    THEN LET at == Min(SqlKeywordPos(text))
         IN  [found |-> TRUE,
              s |-> Strip(KeywordTail(text[at]) \o SubSeq(text, at + 1, Len(text)))]
    ELSE [found |-> FALSE, s |-> <<>>]

\* the texts the SQL generation chain may come back with
SqlTexts ==
    { <<"SELECT", " ", "1">>,
      <<"Here", ":", "\n", Fence, "sql", "\n", "select", " ", "1", "\n", Fence>>,
      <<"Sorry">>,
      <<" ", "nothing", " ", "selected", " ">>,
      <<Fence, "\n", Fence, " ", "DROP", " ", "t">>,
      <<"so", " ", "preselect", " ", "1">>,
      <<>> }

\* what db.run(sql) gives: a result, stringified, or an exception
DbResults == {<<"[(1,)]">>, <<>>}
DbErrors == {<<"syntax error">>, <<"no such table">>}

RelFrame ==
    UNCHANGED << env, _schema_cache, ncalls, pc, args, schema, vr, question,
                 resolution_note, loop, result, obs, served >>

\* chat_with_db is called
RelCall ==
    /\ rel.pc = "idle"
    /\ rel' = [NoRel EXCEPT !.pc = "sql_chain"]
    /\ RelFrame

\* full_chain, first step: the SQL generation chain
RelSqlChain ==
    /\ rel.pc = "sql_chain"
    /\ \E text \in SqlTexts : rel' = [rel EXCEPT !.pc = "run_query", !.query = text]
    /\ RelFrame

\* run_query(db, vars["query"])
RelRunQuery ==
    /\ rel.pc = "run_query"
    /\ LET sql == _extract_sql_from_text(rel.query)
       IN  IF ~sql.found \/ sql.s = <<>>
           THEN rel' = [rel EXCEPT !.pc = "answer", !.response = rel.query]
           ELSE \/ \E r \in DbResults :
                     rel' = [rel EXCEPT !.pc = "answer", !.response = r,
                               !.executed = Append(@, [sql |-> sql.s, ok |-> TRUE,
                                                       out |-> r])]
                \/ \E e \in DbErrors :
                     rel' = [rel EXCEPT
                               !.pc = "answer",
                               !.response = <<"SQL execution error: ">> \o e
                                              \o <<"\n\nOriginal SQL:\n">> \o sql.s,
                               !.executed = Append(@, [sql |-> sql.s, ok |-> FALSE,
                                                       out |-> e])]
    /\ RelFrame

\* full_chain, last steps: the answer prompt and the model
RelAnswer ==
    /\ rel.pc = "answer"
    /\ rel' = [rel EXCEPT !.pc = "again"]
    /\ RelFrame

\* what chat_with_db returns
RelReturned(sql_query) ==
    [action |-> IF sql_query # <<>> THEN "QUERY" ELSE "DESCRIBE",
     sql_attempts |-> IF sql_query # <<>> THEN <<sql_query>> ELSE <<>>,
     final_sql |-> sql_query, error |-> FALSE]

\* sql_chain.invoke once more, to have a query text to report; an exception
\* here is passed over
RelAgain ==
    /\ rel.pc = "again"
    /\ \/ \E sql_result \in SqlTexts :
             LET m == _extract_sql_from_text(sql_result)
                 sql_query == IF m.found /\ m.s # <<>> THEN m.s ELSE Strip(sql_result)
             IN  rel' = [rel EXCEPT !.pc = "idle", !.result = RelReturned(sql_query)]
       \/ rel' = [rel EXCEPT !.pc = "idle", !.result = RelReturned(<<>>)]
    /\ RelFrame

\* an exception in the connection, the schema retrieval or a model call of the
\* full chain: the outer handler returns the error result
RelFails ==
    /\ rel.pc \in {"sql_chain", "answer"}
    /\ rel' = [rel EXCEPT !.pc = "idle",
                          !.result = [action |-> "ERROR", sql_attempts |-> <<>>,
                                      final_sql |-> <<>>, error |-> TRUE]]
    /\ RelFrame

NextRel ==
    \/ RelCall
    \/ RelSqlChain
    \/ RelRunQuery
    \/ RelAnswer
    \/ RelAgain
    \/ RelFails

\* the module is imported; no call of chat_with_powerbi is made
InitRel == Init0 /\ env = [workers |-> {}, outputs |-> "lean"]

\* calls of chat_with_db, one after another
SpecRel == InitRel /\ [][NextRel]_vars

(***************************************************************************)
(* What a cycle did, read from its logs                                    *)
(***************************************************************************)
\* the candidate queries the cycle of thread c sent to execute_dax, in order
DaxSent(c) == SelectSeq(obs[c].live, LAMBDA e : e.kind = "dax")

\* the prompts of one kind the cycle of thread c sent to the language model
Prompts(c, prompt) == SelectSeq(obs[c].llm, LAMBDA e : e.prompt = prompt)

\* sub occurs in s
Contains(s, sub) ==
    \E i \in 0..(Len(s) - Len(sub)) : SubSeq(s, i + 1, i + Len(sub)) = sub

Last(s) == s[Len(s)]

\* every one of the max_retries + 1 attempts was rejected by the live source
Exhausted(c) ==
    /\ Len(DaxSent(c)) = max_retries + 1
    /\ \A i \in 1..Len(DaxSent(c)) : ~DaxSent(c)[i].ok

\* k rejected attempts, then one the live source accepted
SucceededAfter(c, k) ==
    /\ Len(DaxSent(c)) = k + 1
    /\ DaxSent(c)[k + 1].ok
    /\ \A i \in 1..k : ~DaxSent(c)[i].ok

(***************************************************************************)
(* The feedback loop                                                       *)
(***************************************************************************)
\* C1: in one run of the feedback loop the candidate queries sent to the live
\* source, and the attempts recorded, never number more than max_retries + 1;
\* the same holds of the attempts in the result.
C1_RetryBound ==
    \A c \in Threads :
        /\ Len(DaxSent(c)) <= max_retries + 1
        /\ Len(loop[c].attempt_logs) <= max_retries + 1
        /\ Len(result[c].dax_attempts) <= max_retries + 1

\* a cycle that used every attempt: three queries sent, three recorded
C1_Witness ==
    \E c \in Threads :
        /\ result[c].status = "returned"
        /\ Len(DaxSent(c)) = max_retries + 1
        /\ Len(result[c].dax_attempts) = max_retries + 1

\* C2: when every one of the max_retries + 1 attempts is rejected, the result
\* has action ERROR, final_dax is the last attempt, error is set and contains
\* the last error of the live source, and max_retries + 1 attempts are listed.
C2_ExhaustedIsError ==
    \A c \in Threads :
        (result[c].status = "returned" /\ Exhausted(c)) =>
            /\ result[c].action = "ERROR"
            /\ Len(result[c].dax_attempts) = max_retries + 1
            /\ result[c].final_dax = Last(result[c].dax_attempts)
            /\ result[c].error.some
            /\ Contains(result[c].error.v, Last(DaxSent(c)).err)

\* C3: when k attempts are rejected and attempt k + 1 is accepted, the loop is
\* over at once (no further query, k corrector calls in all), k + 1 attempts
\* are listed, final_dax is the last of them, error is null and action is QUERY.
C3_SuccessAfterFailures ==
    \A c \in Threads :
        /\ \A i \in 1..Len(DaxSent(c)) : DaxSent(c)[i].ok => i = Len(DaxSent(c))
        /\ \A k \in 0..max_retries :
              SucceededAfter(c, k) =>
                /\ pc[c] \in {"answer_rows", "idle"}
                /\ Len(Prompts(c, "FIX")) = k
                /\ pc[c] = "answer_rows" =>
                      /\ Len(loop[c].attempt_logs) = k + 1
                      /\ loop[c].final_dax = Last(loop[c].attempt_logs)
                      /\ loop[c].final_dax = Last(DaxSent(c)).q
                /\ result[c].status = "returned" =>
                      /\ Len(result[c].dax_attempts) = k + 1
                      /\ result[c].final_dax = Last(result[c].dax_attempts)
                      /\ result[c].final_dax = Last(DaxSent(c)).q
                      /\ result[c].error = None
                      /\ result[c].action = "QUERY"

\* a result after max_retries rejections and a last attempt that was accepted
C3_Witness ==
    \E c \in Threads :
        /\ result[c].status = "returned"
        /\ SucceededAfter(c, max_retries)
        /\ result[c].dax_attempts[1] # result[c].final_dax

\* C4: when no executable query can be extracted from the candidate text (it
\* holds no EVALUATE, or what is extracted holds none), the loop returns at
\* once with an empty final query and the candidate text as its payload: no
\* query is sent, no attempt is recorded, the corrector is not called, whatever
\* the number of retries left.
C4_UnextractableTerminates ==
    [][\A c \in Threads :
          ( /\ pc[c] = "loop" /\ pc'[c] # "loop"
            /\ InRange(loop[c].attempt, max_retries)
            /\ \/ ~ContainsEvaluate(Upper(loop[c].dax_text))
               \/ ~ContainsEvaluate(Upper(ExtractedOrStripped(loop[c].dax_text))) )
          => /\ pc'[c] = "answer_rows"
             /\ loop'[c].ret = "no_dax"
             /\ loop'[c].final_dax = <<>>
             /\ loop'[c].response_text = PlainText(loop[c].dax_text)
             /\ loop'[c].attempt_logs = loop[c].attempt_logs
             /\ obs'[c] = obs[c]]_vars

\* the corrector's first text holds no query: the loop is over with one attempt
\* recorded and retries left
C4_Witness ==
    \E c \in Threads :
        /\ pc[c] = "answer_rows" /\ loop[c].ret = "no_dax"
        /\ Len(loop[c].attempt_logs) = 1
        /\ Len(Prompts(c, "FIX")) = 1
        /\ loop[c].response_text = PlainText(<<"Sorry">>)

\* C5: a loop that ended because no query could be extracted is surfaced as a
\* result with action ERROR and an error.
C5_UnparseableIsError ==
    [][\A c \in Threads :
          (pc[c] = "answer_rows" /\ loop[c].ret = "no_dax"
             /\ result'[c].status = "returned")
          => (result'[c].action = "ERROR" /\ result'[c].error.some)]_vars

(***************************************************************************)
(* The schema cache                                                        *)
(***************************************************************************)
\* the cycle of thread c has read the cache and is still running
PastCacheGet(c) == pc[c] \notin {"idle", "token", "cache_get"}

\* the schema queries the cycle of thread c sent
SchemaSent(c) == SelectSeq(obs[c].live, LAMBDA e : e.kind = "schema")

\* C6: one thread, cycles one after another: a cycle for an identity that an
\* earlier cycle got a snapshot for works with the very same snapshot text and
\* does no schema extraction.
C6_CacheIdempotent ==
    \A c \in Threads :
        (PastCacheGet(c) /\ KeyOf(c) \in DOMAIN served) =>
            /\ schema[c] = served[KeyOf(c)]
            /\ obs[c].hit /\ ~obs[c].built
            /\ SchemaSent(c) = <<>>

\* a second cycle for an identity, at the planner, with the snapshot of the first
C6_Witness ==
    \E c \in Threads :
        /\ pc[c] = "plan" /\ KeyOf(c) \in DOMAIN served
        /\ obs[c].hit /\ schema[c] # <<>>
        /\ schema[c] = served[KeyOf(c)]

\* the four INFO.VIEW queries of a dataset give no table, column, measure or
\* relationship
YieldsNothing(dataset_id) ==
    /\ table_names(InfoViewRows(dataset_id, "TABLES")) = <<>>
    /\ col_lines(InfoViewRows(dataset_id, "COLUMNS")) = <<>>
    /\ meas_lines(InfoViewRows(dataset_id, "MEASURES")) = <<>>
    /\ rel_lines(InfoViewRows(dataset_id, "RELATIONSHIPS")) = <<>>

C7_State ==
    /\ \A c \in Threads :
          /\ (PastCacheGet(c) /\ pc[c] # "build") => ~YieldsNothing(args[c].dataset_id)
          /\ (\E i \in 1..Len(SchemaSent(c)) : ~SchemaSent(c)[i].ok) =>
                /\ result[c].status = "returned" /\ result[c].action = "ERROR"
                /\ result[c].dax_attempts = <<>> /\ result[c].final_dax = <<>>
                /\ result[c].error.some
                /\ obs[c].llm = <<>>
                /\ KeyOf(c) \notin DOMAIN _schema_cache
    /\ \A w \in Workspaces, d \in Datasets :
          YieldsNothing(d) => cache_key(w, d) \notin DOMAIN _schema_cache

C7_Step ==
    \A c \in Threads :
        /\ (pc[c] = "build" /\ pc'[c] = "idle") =>
              (_schema_cache' = _schema_cache /\ result'[c].action = "ERROR")
        /\ (pc[c] = "cache_get" /\ pc'[c] # "cache_get"
               /\ KeyOf(c) \notin DOMAIN _schema_cache) => pc'[c] = "build"
        /\ (pc[c] = "build" /\ pc'[c] # "build") =>
              Len(SchemaSent(c)') = Len(SchemaSent(c)) + 1

\* C7: one thread: a schema extraction that fails, or that yields no table,
\* column, measure or relationship, ends the cycle with action ERROR, no
\* attempts, an empty final_dax, an error, and no call of the language model;
\* the step leaves the cache as it was, the cache holds no entry for the
\* identity, and a cycle that finds no entry runs the extraction.
C7_FailedExtractionNotCached == []C7_State /\ [][C7_Step]_vars

\* the second call ended on a dataset whose extraction yields nothing, with
\* nothing cached
C7_Witness ==
    \E c \in Threads :
        /\ ncalls = 2 /\ result[c].status = "returned" /\ result[c].action = "ERROR"
        /\ YieldsNothing(args[c].dataset_id)
        /\ result[c].error = Some(EmptySchemaMessage)
        /\ _schema_cache = << >>

\* C8: two threads: two cycles for the same identity never both run a schema
\* extraction to its end.
C8_NoDuplicateRebuild ==
    \A c1, c2 \in Threads :
        (c1 # c2 /\ KeyOf(c1) = KeyOf(c2)) => ~(obs[c1].built /\ obs[c2].built)

(***************************************************************************)
(* The planner and the value resolver                                      *)
(***************************************************************************)
\* the planner's text is empty, does not parse, or is an object whose action
\* is missing, empty, or anything but DESCRIBE or QUERY
AmbiguousPlan(text) ==
    \/ Unparseable(text)
    \/ /\ text.form \in {"json", "wrapped"} /\ text.body.t = "obj"
       /\ LET a == Get(text.body, "action")
          IN  \/ a.t # "str"
              \/ Upper(Strip(a.v)) \notin {<<"DESCRIBE">>, <<"QUERY">>}

\* C9: a cycle whose planner text is ambiguous goes the DESCRIBE way: no
\* generator or corrector prompt, no query sent, and, once the answer prompt
\* has returned, a result with action DESCRIBE, no attempts, an empty
\* final_dax and no error.
C9_DescribeDefault ==
    \A c \in Threads : \A i \in 1..Len(obs[c].llm) :
        LET e == obs[c].llm[i]
        IN  (e.prompt = "PLAN" /\ e.ok /\ AmbiguousPlan(e.json)) =>
              /\ pc[c] \in {"describe", "idle"}
              /\ Prompts(c, "DAX") = <<>> /\ Prompts(c, "FIX") = <<>>
              /\ DaxSent(c) = <<>>
              /\ (pc[c] = "idle" /\ Last(obs[c].llm).ok) =>
                    /\ result[c].status = "returned"
                    /\ result[c].action = "DESCRIBE"
                    /\ result[c].dax_attempts = <<>> /\ result[c].final_dax = <<>>
                    /\ result[c].error = None

VrPrompts == {"VALUE_RESOLUTION_PLAN", "VALUE_RESOLUTION"}

\* the question the resolver owes when its i-th prompt came back malformed: the
\* original one, or for the second prompt the rewrite the first one gave
OwedQuestion(c, i) ==
    IF obs[c].llm[i].prompt = "VALUE_RESOLUTION_PLAN" THEN args[c].question
    ELSE LET first == obs[c].llm[1].json.body
             rw == IF first.t = "obj" THEN Get(first, "rewrite_question") ELSE JNull
         IN  IF rw.t = "str" /\ Strip(rw.v) # <<>> THEN Strip(rw.v)
             ELSE args[c].question

\* C10: when the text a value-resolution prompt comes back with does not parse
\* as JSON, the resolver returns (the cycle is at the planner, nothing raised)
\* with an empty note and the original question, or the first prompt's rewrite
\* when it is the second prompt that is malformed; that is the question the
\* planner is asked, and the result carries no note.
C10_MalformedResolutionIsSafe ==
    \A c \in Threads : \A i \in 1..Len(obs[c].llm) :
        LET e == obs[c].llm[i]
        IN  (e.prompt \in VrPrompts /\ e.ok /\ Unparseable(e.json)) =>
              /\ i = Len(obs[c].llm) =>
                    /\ pc[c] = "plan"
                    /\ resolution_note[c] = <<>>
                    /\ question[c] = OwedQuestion(c, i)
              /\ \A j \in 1..Len(obs[c].llm) :
                    obs[c].llm[j].prompt = "PLAN" =>
                        obs[c].llm[j].question = OwedQuestion(c, i)
              /\ result[c].status = "returned" => result[c].resolution_note = <<>>

\* the match came back malformed after a plan with a rewrite: the planner is
\* about to get the rewrite
C10_Witness ==
    \E c \in Threads :
        /\ pc[c] = "plan" /\ Len(obs[c].llm) = 2
        /\ obs[c].llm[2].prompt = "VALUE_RESOLUTION" /\ Unparseable(obs[c].llm[2].json)
        /\ question[c] # args[c].question
        /\ question[c] = OwedQuestion(c, 2)

(***************************************************************************)
(* Failures inside a cycle                                                 *)
(***************************************************************************)
\* C11: a cycle never ends inside the value resolver: when a cycle is over and
\* it called the language model, the last prompt it sent is not one of the two
\* value-resolution prompts (a failure of the resolver, be it the model call
\* raising or a reply of an unexpected shape, leaves the cycle going on to the
\* planner).
C11_ResolverRecoversLocally ==
    \A c \in Threads :
        (pc[c] = "idle" /\ obs[c].llm # <<>>) =>
            ~(Last(obs[c].llm).prompt \in VrPrompts /\ result[c].status = "raised")

\* C12: in every result returned, a final_dax that is not empty is a query the
\* live source accepted in that cycle.
C12_FinalQuerySucceeded ==
    \A c \in Threads :
        (result[c].status = "returned" /\ result[c].final_dax # <<>>) =>
            \E i \in 1..Len(DaxSent(c)) :
                DaxSent(c)[i].ok /\ DaxSent(c)[i].q = result[c].final_dax

\* the live source did not reject the query: the caller was not authenticated
AuthFailure(err) == err = <<"executeQueries failed (401)">>

\* C13: after a query fails with an authentication failure of the live source
\* the loop neither calls the corrector nor executes again: that query is the
\* last one sent and the corrector has been called for earlier failures only.
C13_UpstreamNotRetried ==
    \A c \in Threads : \A i \in 1..Len(DaxSent(c)) :
        (~DaxSent(c)[i].ok /\ AuthFailure(DaxSent(c)[i].err)) =>
            /\ i = Len(DaxSent(c))
            /\ Len(Prompts(c, "FIX")) < i

(***************************************************************************)
(* The order of the steps of a cycle                                       *)
(***************************************************************************)
\* resolve (two prompts), plan, generate, the corrector inside the feedback
\* loop, synthesize
StepRank(prompt) ==
    CASE prompt = "VALUE_RESOLUTION_PLAN" -> 1 [] prompt = "VALUE_RESOLUTION" -> 2
      [] prompt = "PLAN" -> 3 [] prompt = "DAX" -> 4 [] prompt = "FIX" -> 5
      [] prompt \in {"ANSWER_FROM_SCHEMA", "ANSWER_FROM_ROWS"} -> 6

\* schema queries, then the resolver's sampling queries, then the loop's queries
LiveRank(kind) == CASE kind = "schema" -> 1 [] kind = "sample" -> 2 [] kind = "dax" -> 3

AfterResolve == {"plan", "describe", "generate", "loop", "execute", "fix", "answer_rows"}

\* C14: the prompts of a cycle go out in the order resolve, plan, generate,
\* corrector, synthesize, each but the corrector at most once, and the live
\* queries in the order schema, sampling, execution; planner, generator,
\* corrector and synthesizer all carry the question the resolver returned; a
\* query is executed only after the plan, and once an answer prompt has gone
\* out the cycle is over (the schema answer without any generated query).
C14_StepOrder ==
    \A c \in Threads :
        LET l == obs[c].llm
            v == obs[c].live
        IN  /\ \A i, j \in 1..Len(l) :
                  i < j => /\ StepRank(l[i].prompt) <= StepRank(l[j].prompt)
                           /\ StepRank(l[i].prompt) = StepRank(l[j].prompt)
                                 => l[i].prompt = "FIX"
                           /\ StepRank(l[i].prompt) >= 3 => l[i].question = l[j].question
            /\ \A i, j \in 1..Len(v) : i < j => LiveRank(v[i].kind) <= LiveRank(v[j].kind)
            /\ \A i \in 1..Len(l) :
                  (StepRank(l[i].prompt) >= 3 /\ pc[c] \in AfterResolve)
                      => l[i].question = question[c]
            /\ DaxSent(c) # <<>> => Prompts(c, "PLAN") # <<>>
            /\ (Prompts(c, "DAX") # <<>> \/ Prompts(c, "FIX") # <<>>)
                  => Prompts(c, "PLAN") # <<>>
            /\ (\E i \in 1..Len(l) : StepRank(l[i].prompt) = 6) => pc[c] = "idle"
            /\ Prompts(c, "ANSWER_FROM_SCHEMA") # <<>> =>
                  (DaxSent(c) = <<>> /\ Prompts(c, "DAX") = <<>> /\ Prompts(c, "FIX") = <<>>)
            /\ pc[c] \in {"vr_plan", "vr_sample", "vr_match"} =>
                  \A i \in 1..Len(l) : l[i].prompt \in VrPrompts

\* a cycle that went through every step, the corrector twice, with a question
\* the resolver rewrote
C14_Witness ==
    \E c \in Threads :
        /\ result[c].status = "returned"
        /\ [i \in 1..Len(obs[c].llm) |-> obs[c].llm[i].prompt]
             = <<"VALUE_RESOLUTION_PLAN", "VALUE_RESOLUTION", "PLAN", "DAX", "FIX", "FIX",
                 "ANSWER_FROM_ROWS">>
        /\ obs[c].llm[7].question # args[c].question
        /\ Len(DaxSent(c)) = 3

(***************************************************************************)
(* The tone of the answer prompts                                          *)
(***************************************************************************)
\* the tone an answer prompt is owed: the custom text when the flag of its
\* kind is set and the text is neither missing, empty nor blank, else the
\* built-in tone of its kind
OwedTone(enabled, custom, default) ==
    IF enabled /\ custom.some /\ Strip(custom.v) # <<>> THEN {custom.v, Strip(custom.v)}
    ELSE {default}

\* C15: the tone of the schema answer prompt is the custom schema tone exactly
\* when custom_tone_schema_enabled is set and custom_tone_schema is not missing,
\* empty or blank, and the built-in schema tone otherwise; the same for the
\* rows answer prompt with the rows flag and text; neither kind looks at the
\* arguments of the other.
C15_ToneSelection ==
    \A c \in Threads : \A i \in 1..Len(obs[c].llm) :
        LET e == obs[c].llm[i]
            t == args[c].tone
        IN  /\ (e.prompt = "ANSWER_FROM_SCHEMA" /\ e.ok) =>
                  e.tone \in OwedTone(t.custom_tone_schema_enabled, t.custom_tone_schema,
                                      DefaultSchemaTone)
            /\ (e.prompt = "ANSWER_FROM_ROWS" /\ e.ok) =>
                  e.tone \in OwedTone(t.custom_tone_rows_enabled, t.custom_tone_rows,
                                      DefaultRowsTone)

(***************************************************************************)
(* The planner's candidate query                                           *)
(***************************************************************************)
\* the plan of a PLAN reply that the cycle could read: an object whose action
\* and dax are strings or missing
ReadablePlan(text) ==
    /\ text.form \in {"json", "wrapped"} /\ text.body.t = "obj"
    /\ Get(text.body, "action").t \in {"str", "null"}
    /\ Get(text.body, "dax").t \in {"str", "null"}

\* the action is QUERY
QueryPlan(text) ==
    /\ Get(text.body, "action").t = "str"
    /\ Upper(Strip(Get(text.body, "action").v)) = <<"QUERY">>

\* the candidate query of the plan, without the whitespace around it
Candidate(text) ==
    IF Get(text.body, "dax").t = "str" THEN Strip(Get(text.body, "dax").v) ELSE <<>>

SentTexts(c) == [i \in 1..Len(DaxSent(c)) |-> DaxSent(c)[i].q]

\* C17: the attempts list is the sequence of the query texts sent to the live
\* source, in order, each sent once: while a query is being executed it is
\* already the last entry, at any other point of the cycle and in the result
\* the list and the queries sent are the same sequence; every entry is a text
\* with EVALUATE in it; a final query that is not empty is the last entry.
C17_AuditTrail ==
    \A c \in Threads :
        /\ pc[c] = "execute" => loop[c].attempt_logs = Append(SentTexts(c), loop[c].dax)
        /\ pc[c] \notin {"execute", "idle"} => loop[c].attempt_logs = SentTexts(c)
        /\ \A i \in 1..Len(loop[c].attempt_logs) :
              /\ loop[c].attempt_logs[i] # <<>>
              /\ ContainsEvaluate(Upper(loop[c].attempt_logs[i]))
        /\ loop[c].final_dax # <<>> => loop[c].final_dax = Last(loop[c].attempt_logs)
        /\ result[c].status = "returned" =>
              /\ result[c].dax_attempts = SentTexts(c)
              /\ result[c].final_dax # <<>> =>
                    result[c].final_dax = Last(result[c].dax_attempts)

\* a result whose trail holds the same query text twice, then another
C17_Witness ==
    \E c \in Threads :
        /\ result[c].status = "returned"
        /\ Len(result[c].dax_attempts) = 3
        /\ result[c].dax_attempts[1] = result[c].dax_attempts[2]
        /\ result[c].dax_attempts[3] # result[c].dax_attempts[2]
        /\ result[c].dax_attempts = SentTexts(c)

\* C18: every entry of the schema cache is a text that is neither empty nor
\* blank, whatever the threads do and whichever extractions fail.
C18_CacheNeverEmpty ==
    \A k \in DOMAIN _schema_cache :
        _schema_cache[k] # <<>> /\ ~IsBlank(_schema_cache[k])

\* one thread stored a snapshot while the extraction of another identity
\* had failed in the other
C18_Witness ==
    /\ DOMAIN _schema_cache # {}
    /\ \E c \in Threads :
          result[c].status = "returned" /\ result[c].action = "ERROR"
            /\ result[c].error = Some(EmptySchemaMessage)

(***************************************************************************)
(* The snapshot within a cycle                                             *)
(***************************************************************************)
\* C19: a cycle that found its snapshot in the cache and ends with action
\* DESCRIBE has sent no query of any kind to the live source.
C19_DescribeSendsNothing ==
    \A c \in Threads :
        (result[c].status = "returned" /\ result[c].action = "DESCRIBE" /\ obs[c].hit)
            => obs[c].live = <<>>

\* the cycle holds its snapshot: the get-or-build is behind it
HoldsSnapshot(c) == pc[c] \in {"resolve", "vr_plan", "vr_sample", "vr_match"} \cup AfterResolve

C20_State ==
    \A c \in Threads : \A i \in 1..Len(obs[c].llm) :
        /\ obs[c].llm[i].schema = obs[c].llm[1].schema
        /\ obs[c].llm[i].schema # <<>>
        /\ HoldsSnapshot(c) => obs[c].llm[i].schema = schema[c]

C20_Step ==
    /\ \A c \in Threads :
          (HoldsSnapshot(c) /\ pc'[c] # "idle") => schema'[c] = schema[c]
    /\ _schema_cache' # _schema_cache =>
          \E c \in Threads : pc[c] = "store" /\ pc'[c] = "resolve"

\* C20: two threads: every prompt of a cycle carries the snapshot text the
\* cycle got from its get-or-build, the cycle's snapshot does not change while
\* it runs, whatever another thread stores meanwhile, and the cache is written
\* by the store of a get-or-build only.
C20_SnapshotReadOnly == []C20_State /\ [][C20_Step]_vars

\* both threads built a snapshot for one identity; one is at the planner, having
\* asked the resolver's prompt, and the other has stored its snapshot
C20_Witness ==
    \E c1, c2 \in Threads :
        /\ c1 # c2 /\ KeyOf(c1) = KeyOf(c2)
        /\ obs[c1].built /\ obs[c2].built
        /\ pc[c1] = "plan" /\ obs[c1].llm # <<>>
        /\ pc[c2] = "resolve"
        /\ _schema_cache[KeyOf(c1)] = schema[c1]

(***************************************************************************)
(* The value resolver                                                      *)
(***************************************************************************)
\* the sampling queries the cycle of thread c sent
SamplesSent(c) == SelectSeq(obs[c].live, LAMBDA e : e.kind = "sample")

\* table and column of the first n targets of the resolution plan of the cycle
FirstTargets(c, n) ==
    LET targets == Get(obs[c].llm[1].json.body, "targets").v
    IN  {targets[i].v.table.v \o targets[i].v.column.v :
            i \in 1..(IF Len(targets) < n THEN Len(targets) ELSE n)}

\* the rewrite of the resolution plan of the cycle
PlanRewrite(c) == Strip(Get(obs[c].llm[1].json.body, "rewrite_question").v)

\* C21: the dataset with the long columns: the sampling queries of a cycle are
\* at most 3 and go to the first 3 targets of the plan; the values collected
\* are at most 60 for each sampling query that returned (a query that failed
\* adds none and the cycle goes on); the pool handed to the matching prompt is
\* not empty, has no value twice and at most 120 values; after sampling that
\* gave nothing the resolver returns the rewrite with an empty note and the
\* matching prompt is not sent.
C21_SamplingBounds ==
    \A c \in Threads :
        LET sent == SamplesSent(c)
            returned == SelectSeq(sent, LAMBDA e : e.ok)
        IN  /\ Len(sent) <= 3
            /\ \A i \in 1..Len(sent) : sent[i].q \in FirstTargets(c, 3)
            /\ Len(vr[c].collected) <= 60 * Len(returned)
            /\ pc[c] = "vr_match" =>
                  /\ vr[c].uniq # <<>> /\ Len(vr[c].uniq) <= 120
                  /\ \A i, j \in 1..Len(vr[c].uniq) :
                        i # j => vr[c].uniq[i] # vr[c].uniq[j]
                  /\ Range(vr[c].uniq) \subseteq Range(vr[c].collected)
            /\ (sent # <<>> /\ returned = <<>>) =>
                  /\ pc[c] # "vr_match"
                  /\ Prompts(c, "VALUE_RESOLUTION") = <<>>
                  /\ pc[c] = "plan" =>
                        (resolution_note[c] = <<>> /\ question[c] = PlanRewrite(c))

\* three sampling queries returned 60 values each and the pool is full
C21_Witness ==
    \E c \in Threads :
        /\ pc[c] = "vr_match"
        /\ Len(SamplesSent(c)) = 3
        /\ Len(vr[c].collected) = 180
        /\ Len(vr[c].uniq) = 120

\* the value the resolution plan of the cycle suspects
PlanUserValue(c) == Strip(Get(obs[c].llm[1].json.body, "user_value").v)

\* where x occurs in s, whatever the case
Occurrences(s, x) ==
    {p \in 1..Len(s) : p + Len(x) - 1 <= Len(s)
                          /\ Lower(SubSeq(s, p, p + Len(x) - 1)) = Lower(x)}

\* the match reply of the cycle names a resolved value that is not blank
ResolvedBy(e) ==
    /\ e.prompt = "VALUE_RESOLUTION" /\ e.ok
    /\ e.json.form \in {"json", "wrapped"} /\ e.json.body.t = "obj"
    /\ Get(e.json.body, "resolved").t = "str"
    /\ Strip(Get(e.json.body, "resolved").v) # <<>>

AltsOf(e) == OrEmptyList(Get(parse_json_maybe(e.json), "alternatives"))

\* the match reply is an object that names no resolved value
Unresolved(e) ==
    /\ e.prompt = "VALUE_RESOLUTION" /\ e.ok
    /\ parse_json_maybe(e.json).t = "obj"
    /\ ~ResolvedBy(e)

\* ... but a list of alternatives that is not empty
AltsOnly(e) == Unresolved(e) /\ AltsOf(e).t = "list" /\ AltsOf(e).v # <<>>

\* C23: when the match names no resolved value but a non-empty list of
\* alternatives, the resolver returns: the cycle is at the planner, the question
\* it carries is the rewrite untouched, and the note is not empty and lists the
\* first three alternatives and no further one; when the match names neither,
\* the resolver returns the rewrite with an empty note.
C23_AlternativesOnly ==
    \A c \in Threads :
        (Len(obs[c].llm) = 2 /\ Unresolved(obs[c].llm[2])) =>
            LET e == obs[c].llm[2]
                alts == AltsOf(e).v
            IN  /\ pc[c] = "plan"
                /\ question[c] = OwedQuestion(c, 2)
                /\ IF AltsOnly(e)
                   THEN /\ resolution_note[c] # <<>>
                        /\ \A i \in 1..Len(alts) :
                              alts[i].t = "str" =>
                                (Contains(resolution_note[c], alts[i].v) <=> i <= 3)
                   ELSE resolution_note[c] = <<>>

(***************************************************************************)
(* The rows a successful loop returns                                      *)
(***************************************************************************)
\* C24: when execute_with_feedback has succeeded, the rows it returns are at
\* most 200: the first 200 rows, in the order of the source, of the first table
\* of the response, or all its rows when they are fewer.
C24_RowCap ==
    \A c \in Threads :
        (pc[c] = "answer_rows" /\ loop[c].ret = "rows") =>
            LET resp == Last(DaxSent(c)).tables
                rows == loop[c].response_text
            IN  /\ Last(DaxSent(c)).ok
                /\ rows.kind = "rows"
                /\ rows.n <= 200
                /\ rows.table = 1 /\ rows.first = 1
                /\ rows.n = (IF resp[1] <= 200 THEN resp[1] ELSE 200)

\* a first table of 250 rows came back, and 200 of them are handed on
C24_Witness ==
    \E c \in Threads :
        /\ pc[c] = "answer_rows" /\ loop[c].ret = "rows"
        /\ Last(DaxSent(c)).tables = <<250, 3>>
        /\ loop[c].response_text.n = 200

(***************************************************************************)
(* The relational chain                                                    *)
(***************************************************************************)
\* the model output holds a fenced block: two code fences
HasFence(text) == \E i, j \in 1..Len(text) : i < j /\ text[i] = Fence /\ text[j] = Fence

\* ... a statement keyword
HasKeyword(text) ==
    \E i \in 1..Len(text) :
        text[i] \in {"SELECT", "select", "DROP", "with", "preselect"}

\* ... a fenced block with nothing but whitespace and the tag in it
BlankFence(text) ==
    \E i, j \in 1..Len(text) :
        /\ i < j /\ text[i] = Fence /\ text[j] = Fence
        /\ \A k \in 1..(i - 1) : text[k] # Fence
        /\ \A k \in (i + 1)..(j - 1) :
              text[k] \in WS \/ (k = i + 1 /\ text[k] \in {"sql", "SQL"})

\* run_query has returned in the call under way
RanQuery == rel.pc \in {"answer", "again"}

\* the one statement was executed, and the response is its result or an error
\* text with the error of the database and the statement
ExecutedOnce ==
    /\ Len(rel.executed) = 1
    /\ rel.executed[1].sql # <<>>
    /\ IF rel.executed[1].ok THEN rel.response = rel.executed[1].out
       ELSE /\ Contains(rel.response, rel.executed[1].out)
            /\ Contains(rel.response, rel.executed[1].sql)

\* C25 as stated: run_query returns the text unchanged, and executes nothing,
\* when the text has no fenced block and no statement keyword; otherwise it
\* executes the extracted statement exactly once.
C25_RunQueryOnce ==
    RanQuery =>
        IF ~HasFence(rel.query) /\ ~HasKeyword(rel.query)
        THEN rel.response = rel.query /\ rel.executed = <<>>
        ELSE ExecutedOnce

\* C25, amended: run_query never raises and executes at most once; it returns
\* the text unchanged, and executes nothing, when the text has no fenced block
\* and no statement keyword or when its first fenced block is blank; otherwise
\* it executes the extracted statement exactly once, without a retry, and
\* returns the result or an error text with the database error and the SQL.
C25_RunQueryOnceAmended ==
    RanQuery =>
        IF (~HasFence(rel.query) /\ ~HasKeyword(rel.query)) \/ BlankFence(rel.query)
        THEN rel.response = rel.query /\ rel.executed = <<>>
        ELSE ExecutedOnce

\* a statement without a fence was executed and the database rejected it
C25_Witness ==
    /\ RanQuery
    /\ rel.query = <<"SELECT", " ", "1">>
    /\ Len(rel.executed) = 1 /\ ~rel.executed[1].ok
    /\ rel.response = <<"SQL execution error: ", "syntax error",
                        "\n\nOriginal SQL:\n", "SELECT", " ", "1">>

\* chat_with_db has returned a result that is no error result
RelNonError == rel.pc = "idle" /\ rel.result.action \in {"QUERY", "DESCRIBE"}

\* C30: in a result of chat_with_db that is no error, a final_sql that is not
\* empty is the statement that was executed against the database in the cycle,
\* sql_attempts holds that statement alone, and the action is "QUERY" only if a
\* statement was executed.
C30_ReportsExecutedQuery ==
    RelNonError =>
        /\ rel.result.action = "QUERY" => Len(rel.executed) = 1
        /\ rel.result.final_sql # <<>> =>
              /\ Len(rel.executed) = 1
              /\ rel.result.final_sql = rel.executed[1].sql
              /\ rel.result.sql_attempts = <<rel.executed[1].sql>>

(***************************************************************************)
(* The corrector                                                           *)
(***************************************************************************)
\* the calls of the corrector in the cycle of thread c, those that raised too
Fixes(c) == Prompts(c, "FIX")

\* C26: the corrector is invoked only right after an execution that failed at
\* an attempt index below max_retries, with that query and that error text; at
\* most max_retries times in a call, never after a success, never after the
\* last allowed attempt; and the query of attempt n + 1 is what the extraction
\* makes of the corrector's output for attempt n.
C26_CorrectorDiscipline ==
    \A c \in Threads :
        LET fixes == Fixes(c)
            sent == DaxSent(c)
        IN  /\ Len(fixes) <= max_retries
            /\ Len(fixes) <= Len(sent) /\ Len(sent) <= Len(fixes) + 1
            /\ \A k \in 1..Len(fixes) :
                  /\ ~sent[k].ok
                  /\ k - 1 < max_retries
                  /\ fixes[k].dax = sent[k].q /\ fixes[k].error = sent[k].err
                  /\ k < Len(sent) =>
                        /\ fixes[k].ok
                        /\ sent[k + 1].q = ExtractedOrStripped(fixes[k].text)
            /\ pc[c] = "fix" <=>
                  /\ pc[c] \notin {"idle", "answer_rows"}
                  /\ Len(sent) = Len(fixes) + 1
                  /\ ~Last(sent).ok
            /\ pc[c] = "fix" => Len(sent) <= max_retries

\* two executions failed and the corrector was asked after each; a third
\* execution, of the second corrected query, failed and ended the loop
C26_Witness ==
    \E c \in Threads :
        /\ Len(Fixes(c)) = 2 /\ Len(DaxSent(c)) = 3
        /\ \A i \in 1..3 : ~DaxSent(c)[i].ok
        /\ DaxSent(c)[1].q # DaxSent(c)[2].q
        /\ pc[c] = "answer_rows" /\ loop[c].ret = "error"

(***************************************************************************)
(* The end of the feedback loop                                            *)
(***************************************************************************)
\* where a thread inside execute_with_feedback stands
InLoop == {"loop", "execute", "fix"}

\* C27, one step of thread c: inside execute_with_feedback the attempt index
\* starts at 0, stays below max_retries + 1 and goes up by one at a time; the
\* call is left only by returning, in Succeeded (rows) or Failed (the raw text
\* that holds no query, or the error of the last attempt), and never with the
\* fall-through text.
C27_Step(c) ==
    /\ (pc[c] \notin InLoop /\ pc'[c] \in InLoop) => loop'[c].attempt = 0
    /\ (pc[c] \in InLoop /\ pc'[c] \in InLoop) =>
          /\ loop'[c].attempt \in {loop[c].attempt, loop[c].attempt + 1}
          /\ loop'[c].attempt <= max_retries
    /\ (pc[c] \in InLoop /\ pc'[c] \notin InLoop) =>
          /\ pc'[c] = "answer_rows"
          /\ loop'[c].ret \in {"rows", "no_dax", "error"}
          /\ Len(DaxSent(c)') <= max_retries + 1

\* C27: execute_with_feedback ends in exactly one of Succeeded or Failed, after
\* at most max_retries + 1 rounds whose index goes up by one, whether its calls
\* of the live source and of the corrector return or raise; the fall-through
\* result is never returned.
C27_LoopTerminates == [][\A c \in Threads : C27_Step(c)]_vars

(***************************************************************************)
(* Where resolved values come from                                         *)
(***************************************************************************)
\* C28: when the resolver puts a resolved value into the question, with its
\* "Interpreting" note, that value is one of the candidate values sampled from
\* the live source in the same cycle.
C28_ResolvedIsSampled ==
    \A c \in Threads :
        (pc[c] = "plan" /\ Len(obs[c].llm) = 2 /\ ResolvedBy(obs[c].llm[2])
            /\ resolution_note[c] # <<>>) =>
                Strip(Get(obs[c].llm[2].json.body, "resolved").v)
                    \in Range(obs[c].llm[2].values)

(***************************************************************************)
(* The cache and the callers                                               *)
(***************************************************************************)
\* C29: a cycle is answered from a snapshot of the cache, or ends with a
\* DESCRIBE answer, only if the credentials of its caller can read the
\* workspace and dataset it asks about.
C29_CacheIsolation ==
    \A c \in Threads :
        /\ obs[c].hit => CanRead(args[c].creds, args[c].dataset_id)
        /\ (pc[c] = "idle" /\ result[c].status = "returned"
               /\ result[c].action = "DESCRIBE") =>
              CanRead(args[c].creds, args[c].dataset_id)

====
